---- MODULE Spec2Model ----
(***************************************************************************)
(* Order edit / change-control workflow of the purchase-order service:     *)
(* editOrderStatus, editOrder (Paths A, B, C and the integration path),    *)
(* invokeChangeControl, canOrderBeCancelled (src/order/edit.ts) and        *)
(* editOrderParticipants with its guard (src/order/edit-participants.ts).  *)
(*                                                                         *)
(* One order is modelled.  A handler is one action: it threads a record    *)
(* s = [w, log, err] through the statements of the handler in source       *)
(* order.  s.w is the stores, s.log the store operations performed so far  *)
(* and s.err the message of the exception thrown ("" while none): once     *)
(* s.err is set every later statement is skipped, as after a throw.        *)
(***************************************************************************)
EXTENDS Integers, Sequences, FiniteSets, TLC

(* ------------------------------------------------------------------ *)
(* Bounds                                                               *)
(* ------------------------------------------------------------------ *)
\* Calls made in one behaviour of SpecSeq.
MaxCalls == 3
\* Linked records of one kind (booking requests, confirmations, shipments).
MaxLinked == 1

(* ------------------------------------------------------------------ *)
(* Identifiers                                                          *)
(* ------------------------------------------------------------------ *)
Null == "null"
NoError == ""

ThisOrder == "o1"
OtherOrder == "o2"

\* getStatusId(name, "OrderStatus")
OrderStatuses == {"Issued", "Received", "Accepted", "Canceled", "Rejected"}
receivedStatusId == "Received"
acceptedStatusId == "Accepted"
canceledStatusId == "Canceled"
rejectedStatusId == "Rejected"

\* getChangeStatusId(name)
proposedChangeStatusId == "Proposed"
approvedChangeStatusId == "Approved"

\* BookingStatus,Canceled and ShipmentStatus,Canceled lookups
bookingCancelStatusId == "BookingCanceled"
shipmentCanceledStatusId == "ShipmentCanceled"

Users == {"u1", "u2", "u3"}

\* Keys of shippingInformation the model carries: a change-controlled one, one
\* of the default exclusion list, and extraData.
ShippingKeys == {"destinationId", "specialInstructions"}
ExtraDataKey == "extraData"
\* Top-level order fields of the payload (inputRest).
TopLevelKeys == {"supplierId"}
LineItemKeys == {"addLineItems", "editLineItems", "removeLineItems", "replaceLineItems"}

DefaultExcludedFromChangeCtl == {"cargoReadyDate", "hotFlag", "specialInstructions"}

associatedCompanyIdKeys ==
  {"agentId", "brokerId", "consigneeId", "forwarderId", "supplierId", "truckerId"}

(* ------------------------------------------------------------------ *)
(* State                                                                *)
(* ------------------------------------------------------------------ *)
VARIABLES
  order,           \* the Order row
  lineItems,       \* OrderLineItem rows of the order: id -> quantity
  lineItemCache,   \* dataLoaders.orderLineItemLoader: id -> the quantity it holds
  dependent,       \* booking progress that resetOrder reverts
  changeRequests,  \* OrderChangeRequest rows, in Oid order
  changeReviews,   \* OrderChangeReview rows
  crLineItems,     \* OrderChangeRequestLineItem rows
  messages,        \* messaging store: messages and thread updates
  locations,       \* Location rows of the buyer organisation
  participants,    \* OrderParticipant rows
  created,         \* the rows createOrder stores for the order it creates
  linked,          \* booking requests, confirmations, shipments linked to the order
  prefs,           \* purchase-order preferences of the buyer organisation
  bookingReady,    \* orderReadyForBookingErrors(order) is empty
  faults,          \* the inserts of invokeChangeControl that the database fails
  procs,           \* calls in progress side by side: position and locals of each
  nCalls,          \* calls made so far
  call             \* the last call: its input, the stores before it, its outcome

vars == <<order, lineItems, lineItemCache, dependent, changeRequests, changeReviews, crLineItems,
          messages, locations, participants, created, linked, prefs, bookingReady,
          faults, procs, nCalls, call>>

\* The stores a handler reads and writes, as one record.
World ==
  [order |-> order, lineItems |-> lineItems, lineItemCache |-> lineItemCache,
   dependent |-> dependent,
   changeRequests |-> changeRequests, changeReviews |-> changeReviews,
   crLineItems |-> crLineItems, messages |-> messages, locations |-> locations,
   participants |-> participants, created |-> created, linked |-> linked, prefs |-> prefs,
   bookingReady |-> bookingReady, faults |-> faults]

(* ------------------------------------------------------------------ *)
(* Helpers of the translation                                           *)
(* ------------------------------------------------------------------ *)
EmptyObject == [k \in {} |-> 0]

\* lodash isEmpty on an object
isEmpty(obj) == DOMAIN obj = {}

\* { ...a, ...b }
Merge(a, b) ==
  [k \in (DOMAIN a) \cup (DOMAIN b) |-> IF k \in DOMAIN b THEN b[k] ELSE a[k]]

Restrict(f, S) == [k \in (DOMAIN f) \cap S |-> f[k]]

Start(w) == [w |-> w, log |-> <<>>, err |-> NoError, ret |-> Null, path |-> "none"]
Ok(s) == s.err = NoError
Emit(s, e) == [s EXCEPT !.log = Append(@, e)]
Throw(s, msg) == [s EXCEPT !.err = msg]

\* Position of the first occurrence of e in log, 0 when absent.
FirstIndex(log, e) ==
  IF \E i \in 1..Len(log) : log[i] = e
  THEN CHOOSE i \in 1..Len(log) : log[i] = e /\ \A j \in 1..(i - 1) : log[j] # e
  ELSE 0

Occurs(log, e) == \E i \in 1..Len(log) : log[i] = e

(* ------------------------------------------------------------------ *)
(* Collaborators outside src/ (util/order, resolvers/query)             *)
(* ------------------------------------------------------------------ *)
\* dataLoaders.orderLoader.clear(orderId).load(orderId): the stored row.
loadOrder(s) == IF ~Ok(s) THEN s ELSE Emit(s, "load")

\* updateOrder(orderId, orgId, fields, extraData?): persists the given fields
\* and, when supplied, the extra data.
updateOrder(s, fields, extraData) ==
  IF ~Ok(s) THEN s
  ELSE LET o1 == Merge(s.w.order, fields)
           o2 == IF extraData = Null THEN o1 ELSE [o1 EXCEPT !.extraData = extraData]
       IN Emit([s EXCEPT !.w.order = o2], "updateOrder")

\* resetOrder(order): reverts booking-readiness and dependent state.
resetOrder(s) ==
  IF ~Ok(s) THEN s
  ELSE Emit([s EXCEPT !.w.order.isReadyForBooking = FALSE, !.w.dependent = "none"],
            "resetOrder")

\* orderReadyForBookingErrors(order): empty exactly when the order is complete.
orderReadyForBookingErrors(w) == IF w.bookingReady THEN {} ELSE {"order is not ready for booking"}

\* A change request of the order that is still Proposed.
underChangeControl(w) ==
  \E i \in 1..Len(w.changeRequests) :
    /\ w.changeRequests[i].orderId = ThisOrder
    /\ w.changeRequests[i].changeStatusId = "Proposed"

\* checkReadyForBookingResolver: recomputes the derived flag and writes it when
\* it changed.  An order under active change control is not booking-ready.
checkReadyForBookingResolver(s) ==
  IF ~Ok(s) THEN s
  ELSE LET ready == orderReadyForBookingErrors(s.w) = {} /\ ~underChangeControl(s.w)
       IN IF ready # s.w.order.isReadyForBooking
          THEN Emit([s EXCEPT !.w.order.isReadyForBooking = ready], "checkReadyForBooking:update")
          ELSE Emit(s, "checkReadyForBooking")

\* getOrderMilestoneByName / completeMilestone: milestone tracking.
completeMilestone(s, name) == IF ~Ok(s) THEN s ELSE Emit(s, "completeMilestone")

(* ------------------------------------------------------------------ *)
(* canOrderBeCancelled  (src/order/edit.ts 674-746)                     *)
(* ------------------------------------------------------------------ *)
\* Booking requests of the order's fulfillment rollup that are not canceled.
activeBR(w) ==
  {br \in w.linked.bookingRequests : br.bookingStatusId # bookingCancelStatusId}

\* A variant that also counts confirmations never touched since creation.
bookingConfirmations_IgnoresTouched(w) ==
  {bc \in w.linked.confirmations :
     /\ (bc.statusId # Null /\ bc.statusId # bookingCancelStatusId) \/ bc.statusId = Null
     /\ bc.liDeletedAt = Null}

\* Confirmations joined through a live line item, touched after creation, whose
\* status is null or not the canceled booking status.
bookingConfirmations(w) ==
  {bc \in w.linked.confirmations :
     /\ (bc.statusId # Null /\ bc.statusId # bookingCancelStatusId) \/ bc.statusId = Null
     /\ bc.createdAt # bc.updatedAt
     /\ bc.liDeletedAt = Null}

\* Shipments joined through a live line item, touched after creation, whose
\* line item carries a null or non-canceled shipmentStatusId.
shipments(w) ==
  {sh \in w.linked.shipments :
     /\ (sh.shipmentStatusId # Null /\ sh.shipmentStatusId # shipmentCanceledStatusId)
        \/ sh.shipmentStatusId = Null
     /\ sh.createdAt # sh.updatedAt
     /\ sh.liDeletedAt = Null}

canOrderBeCancelled(w) ==
  IF activeBR(w) # {} THEN FALSE
  ELSE IF ~isEmpty([x \in bookingConfirmations(w) |-> x]) THEN FALSE
  ELSE IF ~isEmpty([x \in shipments(w) |-> x]) THEN FALSE
  ELSE TRUE

(* ------------------------------------------------------------------ *)
(* editOrderStatus  (src/order/edit.ts 109-181)                         *)
(* ------------------------------------------------------------------ *)
CannotCancel ==
  "Cannot cancel a Purchase Order that has a booked request, booked confirmation or shipment."

\* lines 130-137: the veto
cancelVeto(s, orderStatusId) ==
  IF ~Ok(s) THEN s
  ELSE IF orderStatusId = canceledStatusId
       THEN LET s1 == Emit(s, "canOrderBeCancelled")
            IN IF ~canOrderBeCancelled(s1.w) THEN Throw(s1, CannotCancel) ELSE s1
       ELSE s

\* A faulty variant: every status change resets the order.
resetIfCanceledOrRejected_Always(s, orderStatusId) ==
  IF ~Ok(s) THEN s ELSE resetOrder(s)

\* lines 139-144
resetIfCanceledOrRejected(s, orderStatusId) ==
  IF ~Ok(s) THEN s
  ELSE IF orderStatusId = canceledStatusId \/ orderStatusId = rejectedStatusId
       THEN resetOrder(s)
       ELSE s

\* A faulty variant: an order is accepted whatever its readiness errors.
acceptOrder_IgnoresErrors(s, loaded, orderStatusId) ==
  IF ~Ok(s) THEN s
  ELSE IF orderStatusId = acceptedStatusId /\ loaded.orderStatusId # acceptedStatusId
       THEN LET s1 == Emit(s, "orderReadyForBookingErrors")
                s2 == completeMilestone(s1, "PO Accepted")
                s3 == completeMilestone(s2, "Ready for Booking")
            IN [s3 EXCEPT !.ret = [isReadyForBooking |-> TRUE]]
       ELSE [s EXCEPT !.ret = EmptyObject]

\* lines 146-174: the readiness check and the milestones of an accept; the
\* result carries updateBookingReady in s.ret.
acceptOrder(s, loaded, orderStatusId) ==
  IF ~Ok(s) THEN s
  ELSE IF orderStatusId = acceptedStatusId /\ loaded.orderStatusId # acceptedStatusId
       THEN IF orderReadyForBookingErrors(s.w) # {}
            THEN Throw(Emit(s, "orderReadyForBookingErrors"), "order is not ready for booking")
            ELSE LET s1 == Emit(s, "orderReadyForBookingErrors")
                     s2 == completeMilestone(s1, "PO Accepted")
                     s3 == completeMilestone(s2, "Ready for Booking")
                 IN [s3 EXCEPT !.ret = [isReadyForBooking |-> TRUE]]
       ELSE [s EXCEPT !.ret = EmptyObject]

\* A faulty variant: the order is reset before the veto is evaluated.
editOrderStatus_ResetBeforeVeto(s, orderStatusId) ==
  IF ~Ok(s) THEN s
  ELSE LET s0 == loadOrder(s)
           loaded == s0.w.order
           s1 == resetIfCanceledOrRejected(s0, orderStatusId)
           s2 == cancelVeto(s1, orderStatusId)
           s3 == acceptOrder(s2, loaded, orderStatusId)
           s4 == IF Ok(s3)
                 THEN updateOrder(s3, Merge([orderStatusId |-> orderStatusId], s3.ret), Null)
                 ELSE s3
           s5 == loadOrder(s4)
       IN IF Ok(s5) THEN [s5 EXCEPT !.ret = s5.w.order] ELSE s5

editOrderStatus(s, orderStatusId) ==
  IF ~Ok(s) THEN s
  ELSE LET s0 == loadOrder(s)
           loaded == s0.w.order
           s1 == cancelVeto(s0, orderStatusId)
           s2 == resetIfCanceledOrRejected(s1, orderStatusId)
           s3 == acceptOrder(s2, loaded, orderStatusId)
           s4 == IF Ok(s3)
                 THEN updateOrder(s3, Merge([orderStatusId |-> orderStatusId], s3.ret), Null)
                 ELSE s3
           s5 == loadOrder(s4)
       IN IF Ok(s5) THEN [s5 EXCEPT !.ret = s5.w.order] ELSE s5

(* ------------------------------------------------------------------ *)
(* Line items  (src/order/edit.ts 527-570, 604-630)                     *)
(* ------------------------------------------------------------------ *)
Has(obj, k) == k \in DOMAIN obj

\* lines 604-630.  Every line item of the order is dropped from the loader.
checkLineItems(s, li) ==
  IF ~Ok(s) THEN s
  ELSE IF Has(li, "replaceLineItems")
          /\ (Has(li, "addLineItems") \/ Has(li, "editLineItems") \/ Has(li, "removeLineItems"))
       THEN Throw(s, "You cannot replace and add/edit/remove line items.")
  ELSE IF Has(li, "editLineItems") /\ Has(li, "removeLineItems")
          /\ \E editItem \in li.editLineItems : editItem.lineItemId \in li.removeLineItems
       THEN Throw(s, "You cannot edit and remove the same line item.")
  ELSE Emit([s EXCEPT !.w.lineItemCache = EmptyObject], "clearLineItemCache")

\* util/order-line-items
replaceLineItemsInOrder(rows, replaceLineItems) == [id \in replaceLineItems |-> "q1"]
addLineItemsToOrder(rows, addLineItems) == Merge(rows, [id \in addLineItems |-> "q1"])
editLineItemsInOrder(rows, editLineItems) ==
  [id \in DOMAIN rows |->
     IF \E e \in editLineItems : e.lineItemId = id
     THEN (CHOOSE e \in editLineItems : e.lineItemId = id).quantity
     ELSE rows[id]]
removeLineItemsFromOrder(rows, removeLineItems) == Restrict(rows, (DOMAIN rows) \ removeLineItems)

\* What one query of updateLineItems does to the rows.
applyInstruction(rows, category, li) ==
  CASE category = "replaceLineItems" -> replaceLineItemsInOrder(rows, li.replaceLineItems)
    [] category = "addLineItems" -> addLineItemsToOrder(rows, li.addLineItems)
    [] category = "editLineItems" -> editLineItemsInOrder(rows, li.editLineItems)
    [] category = "removeLineItems" -> removeLineItemsFromOrder(rows, li.removeLineItems)

\* The rows a query inserts or updates.
affectedIds(rows, category, li) ==
  CASE category = "replaceLineItems" -> li.replaceLineItems
    [] category = "addLineItems" -> li.addLineItems
    [] category = "editLineItems" -> {e.lineItemId : e \in li.editLineItems} \cap DOMAIN rows
    [] category = "removeLineItems" -> li.removeLineItems \cap DOMAIN rows

\* The order in which a result set lists the rows.
LineItemIds == <<"li1", "li2", "li3">>

\* What the database may make of a query: it rejects, it answers without a
\* result set, or it answers with an empty result set of line items or of
\* notes.
FaultKinds == {"throws", "noRecordset", "lineItemNoRows", "noteNoRows"}

Fault(category, kind) == category \o ":" \o kind

faultOf(w, category) ==
  IF \E k \in FaultKinds : Fault(category, k) \in w.faults
  THEN CHOOSE k \in FaultKinds : Fault(category, k) \in w.faults
  ELSE "none"

QueryRejected == "QueryFailedError"

\* The InsertResult or UpdateResult of a query: raw is the result set (the
\* rows with their column names) when there is one.
queryResponse(category, kind, ids) ==
  [instance |-> IF category \in {"replaceLineItems", "addLineItems"} THEN "InsertResult"
                ELSE "UpdateResult",
   recordset |-> kind # "noRecordset",
   columns |-> IF kind = "noteNoRows" THEN {"Oid", "Note"} ELSE {"Oid", "OrderOid"},
   raw |-> IF kind = "none" THEN SelectSeq(LineItemIds, LAMBDA id : id \in ids) ELSE <<>>]

\* lines 539-567: one query; x carries the handler's record, the responses
\* so far and whether a query rejected.
runQuery(x, category, li) ==
  LET kind == faultOf(x.s.w, category)
      rows == x.s.w.lineItems
  IN IF kind = "throws"
     THEN [x EXCEPT !.s = Emit(@, Fault(category, kind)), !.rejected = TRUE]
     ELSE IF kind = "none"
     THEN [x EXCEPT !.s = Emit([@ EXCEPT !.w.lineItems = applyInstruction(rows, category, li)],
                               category),
                    !.responses = Append(@, queryResponse(category, kind,
                                                          affectedIds(rows, category, li)))]
     ELSE [x EXCEPT !.s = Emit(@, Fault(category, kind)),
                    !.responses = Append(@, queryResponse(category, kind, {}))]

\* lines 540-567: replace alone, else add, edit, remove as supplied.
queries(li) ==
  IF Has(li, "replaceLineItems") THEN <<"replaceLineItems">>
  ELSE (IF Has(li, "addLineItems") THEN <<"addLineItems">> ELSE <<>>)
       \o (IF Has(li, "editLineItems") THEN <<"editLineItems">> ELSE <<>>)
       \o (IF Has(li, "removeLineItems") THEN <<"removeLineItems">> ELSE <<>>)

RECURSIVE runQueries(_, _, _)
runQueries(x, qs, li) ==
  IF qs = <<>> THEN x ELSE runQueries(runQuery(x, Head(qs), li), Tail(qs), li)

\* A faulty variant: the columns of the result are not consulted.
errorObjectType_AlwaysObject(response) == "object"

\* lines 70-80
errorObjectType(response) ==
  IF "OrderOid" \in response.columns THEN "line item"
  ELSE IF "Note" \in response.columns THEN "note"
  ELSE "object"

\* lines 73-74: raw[0] carries OrderOid and Oid
shouldClearLineItem(response) == {"OrderOid", "Oid"} \subseteq response.columns

\* errorObjectType reads response.raw.columns: without a result set that read
\* throws.
NoColumns == "TypeError: Cannot read property 'columns' of undefined"
FailedToCreate(entity) == "Failed to create " \o entity \o " and relate it to order."
FailedToUpdate(entity) == "Failed to update " \o entity \o "."

\* lines 101-103: raw[0].Oid is dropped from the loader.
clearLineItems(s, raw) ==
  Emit([s EXCEPT !.w.lineItemCache = Restrict(@, (DOMAIN @) \ {raw[1]})],
       "orderLineItemLoader.clear")

\* lines 69-107
RECURSIVE handleErrors(_, _)
handleErrors(s, responses) ==
  IF ~Ok(s) \/ responses = <<>> THEN s
  ELSE LET r == Head(responses)
           noRows == ~r.recordset \/ Len(r.raw) = 0
       IN IF noRows /\ ~r.recordset THEN Throw(s, NoColumns)
          ELSE IF noRows /\ r.instance = "InsertResult"
               THEN Throw(s, FailedToCreate(errorObjectType(r)))
          ELSE IF noRows THEN Throw(s, FailedToUpdate(errorObjectType(r)))
          ELSE IF r.instance = "UpdateResult" /\ shouldClearLineItem(r)
               THEN handleErrors(clearLineItems(s, r.raw), Tail(responses))
          ELSE handleErrors(s, Tail(responses))

\* lines 527-570: the queries run side by side; when one rejects the call
\* ends with its error, else the responses are examined in order.
updateLineItems(s, li) ==
  IF ~Ok(s) THEN s
  ELSE LET x == runQueries([s |-> s, responses |-> <<>>, rejected |-> FALSE], queries(li), li)
       IN IF x.rejected THEN Throw(x.s, QueryRejected) ELSE handleErrors(x.s, x.responses)

(* ------------------------------------------------------------------ *)
(* checkFieldsEditable  (src/order/edit.ts 572-602)                     *)
(* ------------------------------------------------------------------ *)
\* Payload fields that carry a boolean.
BooleanKeys == {"hotFlag"}

\* lodash isEmpty of a payload value: true of an object without keys, of ""
\* and of every boolean (isEmpty answers true for what is not a collection).
isEmptyValue(key, v) ==
  IF key = "lineItems" THEN isEmpty(v)
  ELSE IF key \in BooleanKeys THEN TRUE
  ELSE v = ""

\* isEditOrderKey (types/order)
isEditOrderKey(key) ==
  key \in ShippingKeys \cup BooleanKeys \cup TopLevelKeys \cup {"lineItems", "orderStatusId"}

NotEditable(p, editFields) ==
  {key \in DOMAIN editFields :
     /\ ~isEmptyValue(key, editFields[key])
     /\ isEditOrderKey(key)
     /\ key \notin p.editable}

NoPermissionToEdit == "User does not have permission to edit field "

\* The error names the first offending key met; the payload's key order is
\* not part of the state, so any offending key stands for it.
checkFieldsEditable(s, editFields) ==
  IF ~Ok(s) THEN s
  ELSE IF NotEditable(s.w.prefs, editFields) # {}
       THEN LET key == CHOOSE k \in NotEditable(s.w.prefs, editFields) : TRUE
            IN Throw(Emit(s, "getPreferences"), NoPermissionToEdit \o key)
       ELSE Emit(s, "getPreferences")

(* ------------------------------------------------------------------ *)
(* invokeChangeControl  (src/order/edit.ts 413-525)                     *)
(* ------------------------------------------------------------------ *)
\* lines 434-439: the order's change request with the highest Oid, 0 when none.
lastChangeRequest_AnyOrder(w, orderId) ==
  Len(w.changeRequests)

lastChangeRequest(w, orderId) ==
  LET mine == {i \in 1..Len(w.changeRequests) : w.changeRequests[i].orderId = orderId}
  IN IF mine = {} THEN 0 ELSE CHOOSE i \in mine : \A j \in mine : j <= i

\* lines 440-442
nextChangeRequestNumber(w, orderId) ==
  LET last == lastChangeRequest(w, orderId)
  IN IF last # 0 THEN w.changeRequests[last].changeRequestNumber + 1 ELSE 1

\* A variant that numbers the row from the rows stored when it is inserted.
numberInserted_ReadAtInsert(w, changeRequestNumber) == nextChangeRequestNumber(w, ThisOrder)

\* line 461: the number inserted is the one computed at lines 440-442,
\* whatever the table holds by then.
numberInserted(w, changeRequestNumber) == changeRequestNumber

\* lines 444-470: the row inserted; its id is its Oid.
insertNumberedChangeRequest(s, userId, li, shippingInformation, note, changeRequestNumber) ==
  IF ~Ok(s) THEN s
  ELSE IF "insertChangeRequest" \in s.w.faults
       THEN Throw(s, "Failed to create order change request")
  ELSE LET row == [id |-> Len(s.w.changeRequests) + 1,
                   orderId |-> ThisOrder,
                   entityId |-> userId,
                   changeStatusId |-> proposedChangeStatusId,
                   changeRequestNumber |-> numberInserted(s.w, changeRequestNumber),
                   description |-> [lineItems |-> li, shippingInformation |-> shippingInformation],
                   note |-> note]
       IN Emit([s EXCEPT !.w.changeRequests = Append(@, row), !.ret = row.id],
               "insertChangeRequest")

\* lines 434-470 with no other call in between: the read and the insert.
insertChangeRequest(s, userId, li, shippingInformation, note) ==
  IF ~Ok(s) THEN s
  ELSE insertNumberedChangeRequest(s, userId, li, shippingInformation, note,
                                   nextChangeRequestNumber(s.w, ThisOrder))

\* lines 472-485: every participant of the order but the author is notified.
createMongoMessagesEditOrder(s, orderChangeRequestId, userId) ==
  IF ~Ok(s) THEN s
  ELSE LET rest == {p.userId : p \in {q \in s.w.participants : q.orderId = ThisOrder}} \ {userId}
           msg == [kind |-> "changeRequest", changeRequest |-> orderChangeRequestId,
                   sender |-> userId, rest |-> rest]
       IN Emit([s EXCEPT !.w.messages = Append(@, msg)], "createMongoMessagesEditOrder")

\* A faulty variant: every participant of the order is taken for an approver.
approvers_EveryParticipant(w) == {p \in w.participants : p.orderId = ThisOrder}

\* lines 489-492
approvers(w) == {p \in w.participants : p.orderId = ThisOrder /\ p.approvalIsRequired = TRUE}

\* A faulty variant: every review row starts Proposed.
reviewRow_NoSelfApproval(p, orderChangeRequestId, userId) ==
  [id |-> <<orderChangeRequestId, p.id>>,
   orderChangeRequestId |-> orderChangeRequestId,
   entityId |-> p.userId,
   reviewDate |-> Null,
   changeStatusId |-> proposedChangeStatusId]

\* lines 496-506: the review row of approver p.  The rows of one insert are
\* told apart by the approver row each was mapped from.
reviewRow(p, orderChangeRequestId, userId) ==
  [id |-> <<orderChangeRequestId, p.id>>,
   orderChangeRequestId |-> orderChangeRequestId,
   entityId |-> p.userId,
   reviewDate |-> IF p.userId = userId THEN "now" ELSE Null,
   changeStatusId |-> IF p.userId = userId THEN approvedChangeStatusId
                      ELSE proposedChangeStatusId]

\* lines 487-508
insertChangeReviews(s, orderChangeRequestId, userId) ==
  IF ~Ok(s) THEN s
  ELSE IF "insertChangeReviews" \in s.w.faults THEN Throw(s, "insert failed")
  ELSE Emit([s EXCEPT !.w.changeReviews =
                 @ \cup {reviewRow(p, orderChangeRequestId, userId) : p \in approvers(s.w)}],
            "insertChangeReviews")

\* generateOrderChangeRequestLineItems (util/change-request): one delta row per
\* item of each instruction.
generateOrderChangeRequestLineItems(li, orderChangeRequestId) ==
  {[orderChangeRequestId |-> orderChangeRequestId, instruction |-> k, item |-> x] :
     <<k, x>> \in UNION {{<<k, x>> : x \in li[k]} : k \in DOMAIN li}}

\* lines 510-524
insertChangeRequestLineItems(s, li, orderChangeRequestId) ==
  IF ~Ok(s) THEN s
  ELSE IF "insertChangeRequestLineItems" \in s.w.faults THEN Throw(s, "insert failed")
  ELSE Emit([s EXCEPT !.w.crLineItems =
                 @ \cup generateOrderChangeRequestLineItems(li, orderChangeRequestId)],
            "insertChangeRequestLineItems")

\* A faulty variant: the first update also writes the proposed shipping fields.
invokeChangeControl_AppliesFields(s, userId, li, shippingInformation, note, extraData) ==
  IF ~Ok(s) THEN s
  ELSE LET s1 == updateOrder(s, Merge([isReadyForBooking |-> FALSE], shippingInformation),
                             extraData)
           s2 == insertChangeRequest(s1, userId, li, shippingInformation, note)
           id == s2.ret
           s3 == createMongoMessagesEditOrder(s2, id, userId)
           s4 == insertChangeReviews(s3, id, userId)
       IN insertChangeRequestLineItems(s4, li, id)

\* A faulty variant: the change request is inserted before the readiness flag
\* is cleared.
invokeChangeControl_InsertsFirst(s, userId, li, shippingInformation, note, extraData) ==
  IF ~Ok(s) THEN s
  ELSE LET s1 == insertChangeRequest(s, userId, li, shippingInformation, note)
           id == s1.ret
           s2 == updateOrder(s1, [isReadyForBooking |-> FALSE], extraData)
           s3 == createMongoMessagesEditOrder(s2, id, userId)
           s4 == insertChangeReviews(s3, id, userId)
       IN insertChangeRequestLineItems(s4, li, id)

invokeChangeControl(s, userId, li, shippingInformation, note, extraData) ==
  IF ~Ok(s) THEN s
  ELSE LET s1 == updateOrder(s, [isReadyForBooking |-> FALSE], extraData)
           s2 == insertChangeRequest(s1, userId, li, shippingInformation, note)
           id == s2.ret
           s3 == createMongoMessagesEditOrder(s2, id, userId)
           s4 == insertChangeReviews(s3, id, userId)
       IN insertChangeRequestLineItems(s4, li, id)

(* ------------------------------------------------------------------ *)
(* editOrder  (src/order/edit.ts 183-400, 633-672)                      *)
(* ------------------------------------------------------------------ *)
\* JavaScript truthiness of obj[k]
Truthy(obj, k) == Has(obj, k) /\ obj[k] # "" /\ obj[k] # Null

Get(obj, k, default) == IF Has(obj, k) THEN obj[k] ELSE default

Without(obj, keys) == Restrict(obj, (DOMAIN obj) \ keys)

\* A faulty variant: the answer of isOrderEditable is not consulted.
checkVisibleAndEditable_IgnoresEditable(s, in) ==
  IF ~Ok(s) THEN s
  ELSE IF ~in.visible THEN Throw(s, "User does not have permission to edit this order.")
  ELSE s

\* lines 210-224: isVisible(context)(order), then isOrderEditable
checkVisibleAndEditable(s, in) ==
  IF ~Ok(s) THEN s
  ELSE IF ~in.visible THEN Throw(s, "User does not have permission to edit this order.")
  ELSE IF ~in.editable THEN Throw(s, "Order is not editable.")
  ELSE s

\* lines 231-235, 262-266
missingLocation(w, in, shippingInformation) ==
  /\ ~Truthy(shippingInformation, "destinationId")
  /\ in.integration
  /\ w.prefs.enableLocationAutoCreate

\* lines 230-248: the result carries the shipping information in s.ret
autoCreateLocation(s, in) ==
  IF ~Ok(s) THEN s
  ELSE IF missingLocation(s.w, in, in.shippingInformation) /\ in.shipToLocation # Null
       THEN Emit([s EXCEPT !.w.locations = @ \cup {in.shipToLocation},
                           !.ret = Merge(in.shippingInformation,
                                         [destinationId |-> in.shipToLocation])],
                 "createOrGetLocation")
       ELSE [s EXCEPT !.ret = in.shippingInformation]

\* editPOMessageThread({ orderId })
editPOMessageThread(s) ==
  IF ~Ok(s) THEN s
  ELSE Emit([s EXCEPT !.w.messages =
                 Append(@, [kind |-> "thread", changeRequest |-> 0, sender |-> Null, rest |-> {}])],
            "editPOMessageThread")

\* lines 633-672
editAndResetOrder(s, in, order0, shippingInformation) ==
  IF ~Ok(s) THEN s
  ELSE LET li == Get(in.inputSubShip, "lineItems", EmptyObject)
           inputRest == Without(in.inputSubShip, {"lineItems"})
           s1 == checkLineItems(s, li)
           orderStatusId == Get(inputRest, "orderStatusId", Null)
           s2 == IF Truthy(inputRest, "orderStatusId") /\ orderStatusId # order0.orderStatusId
                 THEN editOrderStatus(s1, orderStatusId)
                 ELSE s1
           extraData == Get(shippingInformation, ExtraDataKey, Null)
           shippingInfoSubExtra == Without(shippingInformation, {ExtraDataKey})
           s3 == resetOrder(s2)
           s4 == updateOrder(s3, Merge(inputRest, shippingInfoSubExtra), extraData)
           s5 == loadOrder(s4)
           s6 == updateLineItems(s5, li)
           s7 == checkReadyForBookingResolver(s6)
           s8 == loadOrder(s7)
       IN IF Ok(s8) THEN [s8 EXCEPT !.ret = s8.w.order, !.path = "integration"] ELSE s8

\* lines 250-273
integrationPath(s, in, order0, shippingInformation) ==
  LET s1 == editAndResetOrder(s, in, order0, shippingInformation)
  IN IF Ok(s1) /\ missingLocation(s1.w, in, shippingInformation)
     THEN Emit(s1, "notifyOrderMissingLocation")
     ELSE s1

\* lines 302-320.  The preference is <<>> when unset and <<list>> when set.
excludedFromChangeCtl(p) ==
  IF p.excludeChangeControl # <<>> THEN p.excludeChangeControl[1]
  ELSE DefaultExcludedFromChangeCtl

shippingNoChangeCtl(p, shippingInfoSubExtra) ==
  Restrict(shippingInfoSubExtra, excludedFromChangeCtl(p))

\* A faulty variant: the exclusion list is not consulted.
shippingInfoChangeReq_NothingExcluded(p, shippingInfoSubExtra) == shippingInfoSubExtra

shippingInfoChangeReq(p, shippingInfoSubExtra) ==
  Without(shippingInfoSubExtra, excludedFromChangeCtl(p))

\* A faulty variant: the status of the order is not consulted.
hasChangeControl_IgnoresStatus(p, ord, shippingInfoSubExtra, li) ==
  /\ p.enableChangeControl = TRUE
  /\ (~isEmpty(shippingInfoChangeReq(p, shippingInfoSubExtra)) \/ ~isEmpty(li))

\* lines 322-325
hasChangeControl(p, ord, shippingInfoSubExtra, li) ==
  /\ p.enableChangeControl = TRUE
  /\ (ord.orderStatusId = receivedStatusId \/ ord.orderStatusId = acceptedStatusId)
  /\ (~isEmpty(shippingInfoChangeReq(p, shippingInfoSubExtra)) \/ ~isEmpty(li))

\* A faulty variant: the excluded fields of the payload are not consulted.
hasOnlyChangeControl_IgnoresExcluded(p, ord, shippingInfoSubExtra, li) ==
  hasChangeControl(p, ord, shippingInfoSubExtra, li)

\* line 326
hasOnlyChangeControl(p, ord, shippingInfoSubExtra, li) ==
  hasChangeControl(p, ord, shippingInfoSubExtra, li)
  /\ isEmpty(shippingNoChangeCtl(p, shippingInfoSubExtra))

\* A faulty variant: Path A writes the top-level fields only.
pathA_DropsShippingFields(s, inputRest, shippingInfoSubExtra, extraData, li) ==
  LET s1 == updateOrder(s, inputRest, extraData)
      s2 == loadOrder(s1)
      s3 == updateLineItems(s2, li)
  IN IF Ok(s3) THEN [s3 EXCEPT !.path = "A"] ELSE s3

\* lines 337-349
pathA(s, inputRest, shippingInfoSubExtra, extraData, li) ==
  LET s1 == updateOrder(s, Merge(inputRest, shippingInfoSubExtra), extraData)
      s2 == loadOrder(s1)
      s3 == updateLineItems(s2, li)
  IN IF Ok(s3) THEN [s3 EXCEPT !.path = "A"] ELSE s3

\* A faulty variant: the change-control path also runs the line-item queries.
pathBC_UpdatesLineItems(s, in, onlyChangeControl, inputRest, shippingInfoSubExtra, noChangeCtl, extraData, li) ==
  LET s1 == invokeChangeControl(s, in.userId, li, shippingInfoSubExtra,
                                in.orderChangeRequestNote, extraData)
      s2 == IF ~onlyChangeControl
            THEN updateOrder(s1, Merge(inputRest, noChangeCtl), extraData)
            ELSE s1
      s3 == updateLineItems(s2, li)
  IN IF Ok(s3) THEN [s3 EXCEPT !.path = IF onlyChangeControl THEN "B" ELSE "C"] ELSE s3

\* lines 350-374
pathBC(s, in, onlyChangeControl, inputRest, shippingInfoSubExtra, noChangeCtl, extraData, li) ==
  LET s1 == invokeChangeControl(s, in.userId, li, shippingInfoSubExtra,
                                in.orderChangeRequestNote, extraData)
      s2 == IF ~onlyChangeControl
            THEN updateOrder(s1, Merge(inputRest, noChangeCtl), extraData)
            ELSE s1
  IN IF Ok(s2) THEN [s2 EXCEPT !.path = IF onlyChangeControl THEN "B" ELSE "C"] ELSE s2

\* lines 381-397
participantUpdated(editFields) == \E k \in associatedCompanyIdKeys : Has(editFields, k)

\* A faulty variant: the order returned is the one read before the
\* ready-for-booking recomputation.
nonIntegrationPath_ReturnsStaleOrder(s, in, order0, shippingInformation) ==
  IF ~Ok(s) THEN s
  ELSE LET editFields == Merge(shippingInformation, in.inputSubShip)
           s1 == checkFieldsEditable(s, editFields)
           li == Get(in.inputSubShip, "lineItems", EmptyObject)
           orderStatusId == Get(in.inputSubShip, "orderStatusId", Null)
           inputRest == Without(in.inputSubShip, {"lineItems", "orderStatusId"})
           s2 == checkLineItems(s1, li)
           changeStatus == Truthy(in.inputSubShip, "orderStatusId")
                           /\ orderStatusId # order0.orderStatusId
           s3 == IF changeStatus THEN editOrderStatus(s2, orderStatusId) ELSE s2
           ord == IF changeStatus /\ Ok(s3) THEN s3.ret ELSE order0
           p == s3.w.prefs
           extraData == Get(shippingInformation, ExtraDataKey, Null)
           shippingInfoSubExtra == Without(shippingInformation, {ExtraDataKey})
           cc == hasChangeControl(p, ord, shippingInfoSubExtra, li)
           only == hasOnlyChangeControl(p, ord, shippingInfoSubExtra, li)
           s4 == IF ~cc
                 THEN pathA(s3, inputRest, shippingInfoSubExtra, extraData, li)
                 ELSE pathBC(s3, in, only, inputRest, shippingInfoSubExtra,
                             shippingNoChangeCtl(p, shippingInfoSubExtra), extraData, li)
           s5 == checkReadyForBookingResolver(s4)
           s6 == loadOrder(s5)
           updatedOrder == s4.w.order
           s7 == IF participantUpdated(editFields) THEN editPOMessageThread(s6) ELSE s6
       IN IF Ok(s7) THEN [s7 EXCEPT !.ret = updatedOrder] ELSE s7

\* A faulty variant: the status change of the payload runs after the route was
\* chosen and taken.
nonIntegrationPath_StatusLast(s, in, order0, shippingInformation) ==
  IF ~Ok(s) THEN s
  ELSE LET editFields == Merge(shippingInformation, in.inputSubShip)
           s1 == checkFieldsEditable(s, editFields)
           li == Get(in.inputSubShip, "lineItems", EmptyObject)
           orderStatusId == Get(in.inputSubShip, "orderStatusId", Null)
           inputRest == Without(in.inputSubShip, {"lineItems", "orderStatusId"})
           s2 == checkLineItems(s1, li)
           changeStatus == Truthy(in.inputSubShip, "orderStatusId")
                           /\ orderStatusId # order0.orderStatusId
           p == s2.w.prefs
           extraData == Get(shippingInformation, ExtraDataKey, Null)
           shippingInfoSubExtra == Without(shippingInformation, {ExtraDataKey})
           cc == hasChangeControl(p, order0, shippingInfoSubExtra, li)
           only == hasOnlyChangeControl(p, order0, shippingInfoSubExtra, li)
           s3 == IF ~cc
                 THEN pathA(s2, inputRest, shippingInfoSubExtra, extraData, li)
                 ELSE pathBC(s2, in, only, inputRest, shippingInfoSubExtra,
                             shippingNoChangeCtl(p, shippingInfoSubExtra), extraData, li)
           s4 == IF changeStatus THEN [editOrderStatus(s3, orderStatusId) EXCEPT !.path = s3.path]
                 ELSE s3
           s5 == checkReadyForBookingResolver(s4)
           s6 == loadOrder(s5)
           updatedOrder == s6.w.order
           s7 == IF participantUpdated(editFields) THEN editPOMessageThread(s6) ELSE s6
       IN IF Ok(s7) THEN [s7 EXCEPT !.ret = updatedOrder] ELSE s7

\* lines 275-399
nonIntegrationPath(s, in, order0, shippingInformation) ==
  IF ~Ok(s) THEN s
  ELSE LET editFields == Merge(shippingInformation, in.inputSubShip)
           s1 == checkFieldsEditable(s, editFields)
           li == Get(in.inputSubShip, "lineItems", EmptyObject)
           orderStatusId == Get(in.inputSubShip, "orderStatusId", Null)
           inputRest == Without(in.inputSubShip, {"lineItems", "orderStatusId"})
           s2 == checkLineItems(s1, li)
           changeStatus == Truthy(in.inputSubShip, "orderStatusId")
                           /\ orderStatusId # order0.orderStatusId
           s3 == IF changeStatus THEN editOrderStatus(s2, orderStatusId) ELSE s2
           ord == IF changeStatus /\ Ok(s3) THEN s3.ret ELSE order0
           p == s3.w.prefs
           extraData == Get(shippingInformation, ExtraDataKey, Null)
           shippingInfoSubExtra == Without(shippingInformation, {ExtraDataKey})
           cc == hasChangeControl(p, ord, shippingInfoSubExtra, li)
           only == hasOnlyChangeControl(p, ord, shippingInfoSubExtra, li)
           s4 == IF ~cc
                 THEN pathA(s3, inputRest, shippingInfoSubExtra, extraData, li)
                 ELSE pathBC(s3, in, only, inputRest, shippingInfoSubExtra,
                             shippingNoChangeCtl(p, shippingInfoSubExtra), extraData, li)
           s5 == checkReadyForBookingResolver(s4)
           s6 == loadOrder(s5)
           updatedOrder == s6.w.order
           s7 == IF participantUpdated(editFields) THEN editPOMessageThread(s6) ELSE s6
       IN IF Ok(s7) THEN [s7 EXCEPT !.ret = updatedOrder] ELSE s7

\* A faulty variant: integration calls are routed like any other call.
editOrder_NoIntegrationBranch(w, in) ==
  LET s0 == loadOrder(Start(w))
      order0 == s0.w.order
      s1 == checkVisibleAndEditable(s0, in)
      s2 == autoCreateLocation(s1, in)
      shippingInformation == s2.ret
  IN nonIntegrationPath(s2, in, order0, shippingInformation)

editOrder(w, in) ==
  LET s0 == loadOrder(Start(w))
      order0 == s0.w.order
      s1 == checkVisibleAndEditable(s0, in)
      s2 == autoCreateLocation(s1, in)
      shippingInformation == s2.ret
  IN IF in.integration
     THEN integrationPath(s2, in, order0, shippingInformation)
     ELSE nonIntegrationPath(s2, in, order0, shippingInformation)

(* ------------------------------------------------------------------ *)
(* editOrderParticipants  (src/order/edit-participants.ts)              *)
(* ------------------------------------------------------------------ *)
UnauthorizedModification == "Unauthorized change controller modification"

\* checkPermissions: the caller holds one of the required permissions.
checkPermissions(permissions, required) == permissions \cap required # {}

\* isUserInAssociatedCompany: the users of the companies tied to the order.
isUserInAssociatedCompany(in, userId) == userId \in in.associated

\* lines 109-118: current required approvers that are the acting user.
isSelf(currentParticipants, thisUser) ==
  Cardinality({c \in currentParticipants : c.approvalIsRequired /\ c.userId = thisUser})

\* A variant that does not count a required approver missing from the new list.
countModChangeControllers_IgnoresRemoved(currentParticipants, newParticipants, thisUser) ==
  LET controllers == {c \in currentParticipants : c.approvalIsRequired}
      others == {c \in controllers : c.userId # thisUser}
      modified == {x \in others \X (1..Len(newParticipants)) :
                     /\ newParticipants[x[2]].userId = x[1].userId
                     /\ newParticipants[x[2]].approvalIsRequired # x[1].approvalIsRequired}
  IN Cardinality(controllers \ others) + Cardinality(modified)

\* A faulty variant: a flipped flag of another required approver is not counted.
countModChangeControllers_IgnoresModified(currentParticipants, newParticipants, thisUser) ==
  LET controllers == {c \in currentParticipants : c.approvalIsRequired}
      others == {c \in controllers : c.userId # thisUser}
      removed == {c \in others :
                    \A i \in 1..Len(newParticipants) : newParticipants[i].userId # c.userId}
  IN Cardinality(controllers \ others) + Cardinality(removed)

\* lines 110-138: one for each current required approver that is the acting
\* user, one for each entry of the new list that flips another required
\* approver's flag, one for each other required approver absent from the list.
countModChangeControllers(currentParticipants, newParticipants, thisUser) ==
  LET controllers == {c \in currentParticipants : c.approvalIsRequired}
      others == {c \in controllers : c.userId # thisUser}
      modified == {x \in others \X (1..Len(newParticipants)) :
                     /\ newParticipants[x[2]].userId = x[1].userId
                     /\ newParticipants[x[2]].approvalIsRequired # x[1].approvalIsRequired}
      removed == {c \in others :
                    \A i \in 1..Len(newParticipants) : newParticipants[i].userId # c.userId}
  IN Cardinality(controllers \ others) + Cardinality(modified) + Cardinality(removed)

\* A faulty variant: more than one modification is tolerated when the acting
\* user is a required approver.
isAllowedToEditParticipants_OnlyFirstRule(currentParticipants, newParticipants, thisUser) ==
  LET self == isSelf(currentParticipants, thisUser)
      count == countModChangeControllers(currentParticipants, newParticipants, thisUser)
  IN IF self = 0 /\ count > 0 THEN FALSE ELSE TRUE

\* lines 100-153
isAllowedToEditParticipants(currentParticipants, newParticipants, thisUser) ==
  LET self == isSelf(currentParticipants, thisUser)
      count == countModChangeControllers(currentParticipants, newParticipants, thisUser)
  IN IF self = 0 /\ count > 0 THEN FALSE
     ELSE IF count > 1 THEN FALSE
     ELSE TRUE

\* A faulty variant: the users of the proposed list are not checked.
checkAssociated_OnlyActingUser(s, in, isIntegration) ==
  IF ~Ok(s) THEN s
  ELSE IF ~isUserInAssociatedCompany(in, in.userId) /\ ~isIntegration
       THEN Throw(s, "Unauthorized participant user")
  ELSE s

\* lines 30-41
checkAssociated(s, in, isIntegration) ==
  IF ~Ok(s) THEN s
  ELSE IF ~isUserInAssociatedCompany(in, in.userId) /\ ~isIntegration
       THEN Throw(s, "Unauthorized participant user")
  ELSE IF \E i \in 1..Len(in.participants) :
            ~isUserInAssociatedCompany(in, in.participants[i].userId) /\ ~isIntegration
       THEN Throw(s, "Unauthorized participant")
  ELSE s

\* lines 44-61
checkAllowedToEdit(s, in, isIntegration) ==
  IF ~Ok(s) THEN s
  ELSE LET currentParticipants == {p \in s.w.participants : p.orderId = ThisOrder}
           isAdminOrStaff == checkPermissions(in.permissions, {"ADMIN", "STAFF"})
       IN IF ~isAdminOrStaff /\ ~isIntegration
          THEN LET s1 == Emit(s, "isAllowedToEditParticipants")
               IN IF ~isAllowedToEditParticipants(currentParticipants, in.participants, in.userId)
                  THEN Throw(s1, UnauthorizedModification)
                  ELSE s1
          ELSE s

\* A faulty variant: the rows of required approvers are not deleted.
deleteParticipants_KeepsApprovers(s) ==
  IF ~Ok(s) THEN s
  ELSE Emit([s EXCEPT !.w.participants =
                 {p \in @ : p.orderId # ThisOrder \/ p.approvalIsRequired}],
            "OrderParticipant.delete")

\* line 64: outside any transaction.
deleteParticipants(s) ==
  IF ~Ok(s) THEN s
  ELSE Emit([s EXCEPT !.w.participants = {p \in @ : p.orderId # ThisOrder}],
            "OrderParticipant.delete")

\* The rows an insert of the list creates, identified by their position.
orderParticipants(newParticipants) ==
  {[id |-> i, orderId |-> ThisOrder, userId |-> newParticipants[i].userId,
    approvalIsRequired |-> newParticipants[i].approvalIsRequired] :
     i \in 1..Len(newParticipants)}

\* lines 77-91: a failed insert throws with the transaction neither rolled
\* back nor released.
insertParticipants(s, in) ==
  IF ~Ok(s) THEN s
  ELSE LET s1 == Emit(s, "startTransaction")
       IN IF in.insertFails THEN Throw(Emit(s1, "insert"), "Failed to create participants")
          ELSE LET rows == orderParticipants(in.participants)
                   s2 == Emit([s1 EXCEPT !.w.participants = @ \cup rows], "insert")
                   s3 == Emit(Emit(s2, "commitTransaction"), "release")
               IN [s3 EXCEPT !.ret = {r.id : r \in rows}]

\* lines 14-98
editOrderParticipants(w, in) ==
  LET isIntegration == checkPermissions(in.permissions, {"INTEGRATION"})
      s0 == Emit(Start(w), "load")
      s1 == checkAssociated(s0, in, isIntegration)
      s2 == checkAllowedToEdit(s1, in, isIntegration)
      s3 == deleteParticipants(s2)
  IN IF ~Ok(s3) THEN s3
     ELSE IF Len(in.participants) < 1
          THEN [editPOMessageThread(s3) EXCEPT !.ret = {}]
          ELSE editPOMessageThread(insertParticipants(s3, in))

(* ------------------------------------------------------------------ *)
(* createOrder  (src/order/create.ts)                                   *)
(* ------------------------------------------------------------------ *)
NewOrder == "o3"
Undefined == "undefined"
BuyerOrg == "buyerOrg"
SupplierOrg == "supplierOrg"
ConsigneeOrg == "consigneeOrg"

\* Position of a participant id in the order of string comparison.
UserRank(u) == CHOOSE i \in 1..3 : <<"u1", "u2", "u3">>[i] = u

\* Array.prototype.sort with (a, b) => a.participantId > b.participantId ? 1 : -1
RECURSIVE SortByParticipantId(_)
SortByParticipantId(ps) ==
  IF Len(ps) <= 1 THEN ps
  ELSE LET least == CHOOSE i \in 1..Len(ps) :
                      \A j \in 1..Len(ps) :
                        UserRank(ps[i].participantId) <= UserRank(ps[j].participantId)
           others == [k \in 1..(Len(ps) - 1) |-> IF k < least THEN ps[k] ELSE ps[k + 1]]
       IN <<ps[least]>> \o SortByParticipantId(others)

\* The element of ps at the least of the positions hits, as a sequence of
\* length 0 or 1 (Array.prototype.find).
FirstAt(ps, hits) ==
  IF hits = {} THEN <<>> ELSE <<ps[CHOOSE i \in hits : \A j \in hits : i <= j]>>

\* create.ts 53-55
firstAllowed(ps, companyId) ==
  FirstAt(ps, {i \in 1..Len(ps) :
                 ps[i].orgId = companyId /\ ps[i].isAllowedToAcceptChangeRequest})

\* create.ts 62
firstOfCompany(ps, companyId) ==
  FirstAt(ps, {i \in 1..Len(ps) : ps[i].orgId = companyId})

\* create.ts 51-65: the default approver of one company, and the array as
\* the sort at lines 59-61 leaves it.
defaultApprover(ps, companyId) ==
  LET allowed == firstAllowed(ps, companyId)
      sorted == SortByParticipantId(ps)
      first == firstOfCompany(sorted, companyId)
  IN IF allowed # <<>> THEN [participantId |-> allowed[1].participantId, ps |-> ps]
     ELSE [participantId |-> IF first # <<>> THEN first[1].participantId ELSE Undefined,
           ps |-> sorted]

\* create.ts 50-66: a Set of two results, undefined being one of them when a
\* company has no participant.
defaultApprovers(ps, buyerOrgId, supplierOrgId) ==
  LET b == defaultApprover(ps, buyerOrgId)
      sp == defaultApprover(b.ps, supplierOrgId)
  IN {b.participantId, sp.participantId}

\* create.ts 77-87
newParticipantRows(ps, approverIds) ==
  {[userId |-> ps[i].participantId,
    approvalIsRequired |-> ps[i].participantId \in approverIds,
    orderId |-> NewOrder] : i \in 1..Len(ps)}

\* create.ts 39-96.  orgIds are buyerOrgId, supplierOrgId and otherCompanyIds
\* after filter(Boolean).
createOrderParticipants(s, in, buyerOrgId) ==
  IF ~Ok(s) THEN s
  ELSE LET orgIds == {buyerOrgId, in.supplierId, in.consigneeId} \ {Null}
           found == SelectSeq(in.rights, LAMBDA p : p.orgId \in orgIds)
           approverIds == defaultApprovers(found, buyerOrgId, in.supplierId)
           rows == newParticipantRows(found, approverIds)
       IN IF Cardinality(approverIds) = 0
          THEN Throw(s, "No default participants for order.")
          ELSE IF rows = {} \/ "createOrderParticipants" \in s.w.faults
               THEN Throw(Emit(s, "insertParticipants"), "Failed to create order participants.")
               ELSE Emit([s EXCEPT !.w.created.participants = rows], "insertParticipants")

\* create.ts 113-146
checkMayCreate(s, in) ==
  IF ~in.buyer THEN Throw(s, "SyntaxError")
  ELSE IF in.integration THEN s
  ELSE IF ~in.userInOrg \/ ~in.isBuyerRole \/ in.externalRefused
       THEN Throw(s, "User does not have permission to create an order for this org.")
  ELSE IF ~in.participant THEN Throw(s, "Invalid participant provided")
  ELSE s

\* create.ts 168-182
isOrgAutoCreateEnabled(in) == in.integration /\ in.orgAutoCreate

validateOrderOrg(s, in) ==
  IF Ok(s) /\ isOrgAutoCreateEnabled(in) THEN Emit(s, "validateOrderOrg") ELSE s

\* create.ts 185-196
checkFieldsCreatable(s, in) ==
  IF ~Ok(s) THEN s
  ELSE IF ~in.editable /\ ~in.integration
       THEN Throw(s, "User does not have permission to create field")
       ELSE s

\* create.ts 203-207 and 300-304, on the shipping information at that time
locationMissing(w, in, destinationId) ==
  destinationId = Null /\ in.integration /\ w.prefs.enableLocationAutoCreate

\* create.ts 203-220: the destination in s.ret
createLocation(s, in) ==
  IF ~Ok(s) THEN s
  ELSE IF locationMissing(s.w, in, in.destinationId) /\ in.shipToLocation # Null
       THEN Emit([s EXCEPT !.w.locations = @ \cup {in.shipToLocation},
                           !.ret = in.shipToLocation], "createOrGetLocation")
       ELSE [s EXCEPT !.ret = in.destinationId]

\* create.ts 227-253
insertOrder(s, in, orgId, destinationId) ==
  IF ~Ok(s) THEN s
  ELSE IF "insertOrder" \in s.w.faults THEN Throw(Emit(s, "insertOrder"), "Failed to create order")
  ELSE Emit([s EXCEPT !.w.created.order =
                 {[id |-> NewOrder, orgId |-> orgId, supplierId |-> in.supplierId,
                   destinationId |-> destinationId, orderStatusId |-> "Issued",
                   isReadyForBooking |-> FALSE,
                   purchaseOrderNumber |-> in.purchaseOrderNumber]}],
            "insertOrder")

\* create.ts 264-266
createExtraData(s, in) ==
  IF ~Ok(s) \/ Len(in.extraData) = 0 THEN s
  ELSE IF "createExtraData" \in s.w.faults
       THEN Throw(Emit(s, "createExtraData"), "createExtraData failed")
       ELSE Emit([s EXCEPT !.w.created.extraData = {in.extraData[i] : i \in 1..Len(in.extraData)}],
                 "createExtraData")

\* create.ts 268
createOrderMilestones(s) ==
  IF ~Ok(s) THEN s
  ELSE IF "createOrderMilestones" \in s.w.faults
       THEN Throw(Emit(s, "createOrderMilestones"), "createOrderMilestones failed")
       ELSE Emit([s EXCEPT !.w.created.milestones = {"milestones"}], "createOrderMilestones")

\* create.ts 270
commitTransaction(s) ==
  IF ~Ok(s) THEN s
  ELSE IF "commitTransaction" \in s.w.faults
       THEN Throw(Emit(s, "commitTransaction"), "commit failed")
       ELSE Emit(s, "commitTransaction")

\* A faulty variant: the catch block releases the connection and keeps the rows.
rollbackTransaction_KeepsRows(s, before) == s

\* create.ts 273-275: the rows written through the query runner are undone.
rollbackTransaction(s, before) == [s EXCEPT !.w.created = before]

\* create.ts 223-278
orderTransaction(s, in, orgId, destinationId) ==
  IF ~Ok(s) THEN s
  ELSE LET before == s.w.created
           t0 == Emit(s, "startTransaction")
           t1 == insertOrder(t0, in, orgId, destinationId)
           t2 == createOrderParticipants(t1, in, orgId)
           t3 == createExtraData(t2, in)
           t4 == createOrderMilestones(t3)
           t5 == commitTransaction(t4)
       IN IF Ok(t5) THEN Emit(t5, "release")
          ELSE Emit(Emit([rollbackTransaction(t5, before) EXCEPT !.err = "createOrder " \o @],
                         "rollbackTransaction"), "release")

\* create.ts 282-284
genAndUpdatePONumber(s, in) ==
  IF ~Ok(s) \/ in.purchaseOrderNumber # Null THEN s
  ELSE IF "genAndUpdatePONumber" \in s.w.faults
       THEN Throw(s, "genAndUpdatePONumber failed")
       ELSE Emit([s EXCEPT !.w.created.order =
                      {[o EXCEPT !.purchaseOrderNumber = "generated"] : o \in @}],
                 "genAndUpdatePONumber")

\* create.ts 287-289
addLineItems(s, in) ==
  IF ~Ok(s) \/ in.lineItems = {} THEN s
  ELSE IF "addLineItemsToOrder" \in s.w.faults THEN Throw(s, "addLineItemsToOrder failed")
       ELSE Emit([s EXCEPT !.w.created.lineItems = addLineItemsToOrder(@, in.lineItems)],
                 "addLineItemsToOrder")

\* create.ts 290-295
createMongoMessagesCreateOrder(s, in) ==
  IF ~Ok(s) THEN s
  ELSE IF "createMongoMessagesCreateOrder" \in s.w.faults
       THEN Throw(s, "createMongoMessagesCreateOrder failed")
       ELSE Emit([s EXCEPT !.w.messages =
                      Append(@, [kind |-> "orderCreated", changeRequest |-> 0,
                                 sender |-> in.userId, rest |-> {in.participantId}])],
                 "createMongoMessagesCreateOrder")

\* create.ts 299-341
notifyAfterCreate(s, in, destinationId) ==
  IF ~Ok(s) THEN s
  ELSE LET s1 == IF locationMissing(s.w, in, destinationId)
                 THEN Emit(s, "notifyOrderMissingLocation") ELSE s
           s2 == IF isOrgAutoCreateEnabled(in)
                 THEN Emit(s1, "notifyOrderOrgsAutoCreation") ELSE s1
       IN Emit(s2, "notifyOrderAssignment")

\* create.ts 343-346
createPOMessageThread(s, in) ==
  IF ~Ok(s) THEN s
  ELSE IF "createPOMessageThread" \in s.w.faults THEN Throw(s, "createPOMessageThread failed")
       ELSE Emit([s EXCEPT !.w.messages =
                      Append(@, [kind |-> "threadCreated", changeRequest |-> 0,
                                 sender |-> in.userId, rest |-> {}])],
                 "createPOMessageThread")

\* create.ts 98-349.  The order belongs to the caller's organisation, which
\* for an integration is the buyer's (lines 118, 133).
createOrder(w, in) ==
  LET s1 == checkFieldsCreatable(validateOrderOrg(checkMayCreate(Start(w), in), in), in)
      s2 == createLocation(s1, in)
      s3 == orderTransaction(s2, in, BuyerOrg, s2.ret)
      s4 == addLineItems(genAndUpdatePONumber(s3, in), in)
      s5 == createMongoMessagesCreateOrder(s4, in)
      s6 == notifyAfterCreate(loadOrder(s5), in, s2.ret)
      s7 == createPOMessageThread(s6, in)
  IN IF Ok(s7) THEN [s7 EXCEPT !.ret = s7.w.created.order] ELSE s7

(* ------------------------------------------------------------------ *)
(* Inputs                                                               *)
(* ------------------------------------------------------------------ *)
\* All objects whose keys are a subset of keys and whose values are v.
ObjectsOver(keys, v) == {[k \in K |-> v] : K \in SUBSET keys}

StatusPayloads ==
  {EmptyObject} \cup {[orderStatusId |-> st] : st \in OrderStatuses \ {"Issued"}}

LineItemPayloads ==
  {EmptyObject, [lineItems |-> EmptyObject], [lineItems |-> [addLineItems |-> {"li2"}]]}

EditOrderInputs ==
  {[userId |-> u, integration |-> i, visible |-> TRUE, editable |-> TRUE,
    shipToLocation |-> Null, shippingInformation |-> sh,
    inputSubShip |-> Merge(Merge(top, st), li), orderChangeRequestNote |-> "note"] :
     u \in {"u1", "u3"}, i \in BOOLEAN,
     sh \in ObjectsOver(ShippingKeys \cup {ExtraDataKey}, "v1"),
     top \in ObjectsOver(TopLevelKeys, "v1"),
     st \in StatusPayloads, li \in LineItemPayloads}

(* ------------------------------------------------------------------ *)
(* Initial states                                                       *)
(* ------------------------------------------------------------------ *)
\* Orders as editOrderStatus leaves them: an accept writes isReadyForBooking =
\* TRUE and a later change request clears it; every other status is entered
\* with the flag as createOrder or resetOrder left it.
InitialOrders ==
  {[orderStatusId |-> st, isReadyForBooking |-> r, destinationId |-> "v0",
    specialInstructions |-> "v0", supplierId |-> "v0", extraData |-> "v0"] :
     st \in OrderStatuses, r \in BOOLEAN} \
  {o \in [orderStatusId : OrderStatuses, isReadyForBooking : {TRUE}, destinationId : {"v0"},
          specialInstructions : {"v0"}, supplierId : {"v0"}, extraData : {"v0"}] :
     o.orderStatusId # acceptedStatusId}

\* A change request of another order, already numbered 4.
ForeignChangeRequest ==
  [id |-> 1, orderId |-> OtherOrder, entityId |-> "u2",
   changeStatusId |-> proposedChangeStatusId, changeRequestNumber |-> 4,
   description |-> [lineItems |-> EmptyObject, shippingInformation |-> EmptyObject],
   note |-> "note"]

\* u1 and u2 approve changes of the order, u3 only takes part; u3 approves
\* changes of another order.
ForeignParticipant ==
  [id |-> 0, orderId |-> OtherOrder, userId |-> "u3", approvalIsRequired |-> TRUE]

InitialParticipants ==
  {[id |-> 1, orderId |-> ThisOrder, userId |-> "u1", approvalIsRequired |-> TRUE],
   [id |-> 2, orderId |-> ThisOrder, userId |-> "u2", approvalIsRequired |-> TRUE],
   [id |-> 3, orderId |-> ThisOrder, userId |-> "u3", approvalIsRequired |-> FALSE],
   ForeignParticipant}

NoLinked == [bookingRequests |-> {}, confirmations |-> {}, shipments |-> {}]
ActiveBookingRequest == [NoLinked EXCEPT !.bookingRequests = {[bookingStatusId |-> "Booked"]}]

AllEditable == ShippingKeys \cup TopLevelKeys \cup {"lineItems", "orderStatusId"}

InitialPrefs ==
  [enableChangeControl : BOOLEAN, excludeChangeControl : {<<>>, <<{"destinationId"}>>},
   editable : {AllEditable}, enableLocationAutoCreate : {FALSE}]

NoCall == [op |-> "none"]

\* No call is in progress side by side with another.
NoProcs == <<>>

\* createOrder has stored nothing.
NoCreated ==
  [order |-> {}, participants |-> {}, extraData |-> {}, milestones |-> {},
   lineItems |-> EmptyObject]

\* The stores of an order without change requests of its own.
InitStoresItems(orders, participantSets, linkedSets, prefSets, faultSets, procSets, itemSets, cacheStates) ==
  /\ order \in orders
  /\ lineItems \in itemSets
  /\ lineItemCache \in {IF c = "primed" THEN lineItems ELSE EmptyObject : c \in cacheStates}
  /\ dependent = "progress"
  /\ changeRequests = <<ForeignChangeRequest>>
  /\ changeReviews = {}
  /\ crLineItems = {}
  /\ messages = <<>>
  /\ locations = {}
  /\ participants \in participantSets
  /\ created = NoCreated
  /\ linked \in linkedSets
  /\ prefs \in prefSets
  /\ bookingReady \in BOOLEAN
  /\ faults \in faultSets
  /\ procs \in procSets
  /\ nCalls = 0
  /\ call = NoCall

\* The same, with one line item and nothing in the line-item loader.
InitStoresProcs(orders, participantSets, linkedSets, prefSets, faultSets, procSets) ==
  InitStoresItems(orders, participantSets, linkedSets, prefSets, faultSets, procSets,
                  {[id \in {"li1"} |-> "q0"]}, {"empty"})

\* The same, with calls made one at a time.
InitStoresWith(orders, participantSets, linkedSets, prefSets, faultSets) ==
  InitStoresProcs(orders, participantSets, linkedSets, prefSets, faultSets, {NoProcs})

\* The same, with a database that fails no insert.
InitStores(orders, participantSets, linkedSets, prefSets) ==
  InitStoresWith(orders, participantSets, linkedSets, prefSets, {{}})

Init == InitStores(InitialOrders, {InitialParticipants}, {NoLinked, ActiveBookingRequest},
                   InitialPrefs)

(* ------------------------------------------------------------------ *)
(* Actions                                                              *)
(* ------------------------------------------------------------------ *)
\* The stores as the handler left them (statements before a throw are not
\* undone: the handlers of edit.ts open no transaction), and the call's record.
Commit(op, in, r) ==
  /\ order' = r.w.order
  /\ lineItems' = r.w.lineItems
  /\ lineItemCache' = r.w.lineItemCache
  /\ dependent' = r.w.dependent
  /\ changeRequests' = r.w.changeRequests
  /\ changeReviews' = r.w.changeReviews
  /\ crLineItems' = r.w.crLineItems
  /\ messages' = r.w.messages
  /\ locations' = r.w.locations
  /\ participants' = r.w.participants
  /\ created' = r.w.created
  /\ call' = [op |-> op, in |-> in, pre |-> World, err |-> r.err, log |-> r.log,
              ret |-> IF Ok(r) THEN r.ret ELSE Null, path |-> r.path]
  /\ nCalls' = nCalls + 1
  /\ UNCHANGED <<linked, prefs, bookingReady, faults, procs>>

EditOrder(in) == Commit("editOrder", in, editOrder(World, in))

EditOrderStatus(orderStatusId) ==
  Commit("editOrderStatus", [orderStatusId |-> orderStatusId],
         editOrderStatus(Start(World), orderStatusId))

\* Spec: one call, with any payload, on any initial order.
FirstCall == call.op = "none"

CallEditOrder == \E in \in EditOrderInputs : FirstCall /\ EditOrder(in)

CallEditOrderStatus == \E st \in OrderStatuses : FirstCall /\ EditOrderStatus(st)

Next == CallEditOrder \/ CallEditOrderStatus

Spec == Init /\ [][Next]_vars

\* SpecSeq: up to MaxCalls calls, one after the other, on a Received order under
\* change control.
SeqPayloads ==
  {[sh |-> sh, rest |-> rest] :
     sh \in {[destinationId |-> "v1"], [specialInstructions |-> "v1"]},
     rest \in {EmptyObject, [lineItems |-> [addLineItems |-> {"li2"}]],
               [orderStatusId |-> "Accepted"]}}

SeqEditOrderInputs ==
  {in \in EditOrderInputs :
     /\ \E x \in SeqPayloads : in.shippingInformation = x.sh /\ in.inputSubShip = x.rest
     /\ in.integration => (in.userId = "u1" /\ in.inputSubShip = EmptyObject
                           /\ "destinationId" \in DOMAIN in.shippingInformation)}

InitSeq ==
  InitStores({o \in InitialOrders : o.orderStatusId = "Received"}, {InitialParticipants},
             {NoLinked}, {p \in InitialPrefs : p.enableChangeControl /\ p.excludeChangeControl = <<>>})

SeqEditOrder == \E in \in SeqEditOrderInputs : nCalls < MaxCalls /\ EditOrder(in)

SeqEditOrderStatus ==
  \E st \in {"Accepted", "Canceled"} : nCalls < MaxCalls /\ EditOrderStatus(st)

NextSeq == SeqEditOrder \/ SeqEditOrderStatus

SpecSeq == InitSeq /\ [][NextSeq]_vars

\* SpecCancel: one status change on an order with any linked records, at most
\* MaxLinked of each kind.
SubsetsUpTo(S, n) == {X \in SUBSET S : Cardinality(X) <= n}

LinkedConfigs ==
  [bookingRequests : SubsetsUpTo({[bookingStatusId |-> b] : b \in {"Booked", "BookingCanceled"}},
                                 MaxLinked),
   confirmations : SubsetsUpTo([statusId : {Null, "Confirmed", "BookingCanceled"},
                                createdAt : {1}, updatedAt : {1, 2},
                                liDeletedAt : {Null, "t"}], MaxLinked),
   shipments : SubsetsUpTo([shipmentStatusId : {Null, "InTransit", "ShipmentCanceled"},
                            createdAt : {1}, updatedAt : {1, 2},
                            liDeletedAt : {Null, "t"}], MaxLinked)]

InitCancel ==
  InitStores({o \in InitialOrders : o.orderStatusId = "Accepted"}, {InitialParticipants},
             LinkedConfigs, {p \in InitialPrefs : p.enableChangeControl /\ p.excludeChangeControl = <<>>})

CancelEditOrderStatus == \E st \in OrderStatuses : FirstCall /\ EditOrderStatus(st)

SpecCancel == InitCancel /\ [][CancelEditOrderStatus]_vars

\* SpecParticipants: one participants edit, by any caller, of any list, on any
\* current participant set.
UserOrder == <<"u1", "u2", "u3">>

ListOf(f) ==
  LET present == SelectSeq(UserOrder, LAMBDA u : f[u] # "absent")
  IN [i \in 1..Len(present) |->
        [userId |-> present[i], approvalIsRequired |-> f[present[i]] = "approver"]]

ParticipantLists ==
  {ListOf(f) : f \in [Users -> {"absent", "plain", "approver"}]}
  \cup {<<[userId |-> "u2", approvalIsRequired |-> TRUE],
          [userId |-> "u2", approvalIsRequired |-> FALSE]>>,
        <<[userId |-> "u1", approvalIsRequired |-> TRUE],
          [userId |-> "u2", approvalIsRequired |-> TRUE],
          [userId |-> "u2", approvalIsRequired |-> TRUE]>>}

EditParticipantsInputs ==
  [userId : Users,
   permissions : {{}, {"ADMIN"}, {"STAFF"}, {"INTEGRATION"}},
   participants : ParticipantLists,
   associated : {Users, Users \ {"u3"}},
   insertFails : BOOLEAN]

InitParticipants ==
  InitStores({o \in InitialOrders : o.orderStatusId = "Received"},
             {orderParticipants(l) \cup {ForeignParticipant} : l \in ParticipantLists},
             {NoLinked}, {p \in InitialPrefs : p.enableChangeControl /\ p.excludeChangeControl = <<>>})

EditOrderParticipants(in) == Commit("editOrderParticipants", in, editOrderParticipants(World, in))

CallEditOrderParticipants ==
  \E in \in EditParticipantsInputs : FirstCall /\ EditOrderParticipants(in)

SpecParticipants == InitParticipants /\ [][CallEditOrderParticipants]_vars

\* SpecSame: one editOrder call whose payload repeats values the order
\* already stores, on a Received or Accepted order under change control.
SameValueInputs ==
  {[userId |-> u, integration |-> i, visible |-> TRUE, editable |-> TRUE,
    shipToLocation |-> Null, shippingInformation |-> sh,
    inputSubShip |-> Merge(Merge(top, st), li), orderChangeRequestNote |-> "note"] :
     u \in {"u1", "u3"}, i \in BOOLEAN,
     sh \in ObjectsOver(ShippingKeys \cup {ExtraDataKey}, "v0"),
     top \in ObjectsOver(TopLevelKeys, "v0"),
     st \in {EmptyObject, [orderStatusId |-> "Received"], [orderStatusId |-> "Accepted"]},
     li \in {EmptyObject, [lineItems |-> EmptyObject]}}

InitSame ==
  InitStores({o \in InitialOrders : o.orderStatusId \in {"Received", "Accepted"}},
             {InitialParticipants}, {NoLinked}, {p \in InitialPrefs : p.enableChangeControl})

SameEditOrder == \E in \in SameValueInputs : FirstCall /\ EditOrder(in)

SpecSame == InitSame /\ [][SameEditOrder]_vars

\* SpecGuards: one editOrder call that may be refused (an order not visible or
\* not editable, a field not editable, a conflicting line-item instruction) or
\* may meet a failing insert.
ConflictingLineItems ==
  {[replaceLineItems |-> {"li2"}, addLineItems |-> {"li3"}],
   [editLineItems |-> {[lineItemId |-> "li1", quantity |-> "q2"]},
    removeLineItems |-> {"li1"}]}

GuardPayloads ==
  {EmptyObject, [supplierId |-> "v1"], [lineItems |-> [addLineItems |-> {"li2"}]]}
  \cup {[lineItems |-> li] : li \in ConflictingLineItems}
  \cup {[orderStatusId |-> "Canceled", lineItems |-> li] : li \in ConflictingLineItems}

GuardInputs ==
  [userId : {"u1"}, integration : BOOLEAN, visible : BOOLEAN, editable : BOOLEAN,
   shipToLocation : {Null, "loc1"},
   shippingInformation : {EmptyObject, [destinationId |-> "v1"], [hotFlag |-> TRUE],
                          [specialInstructions |-> ""]},
   inputSubShip : GuardPayloads, orderChangeRequestNote : {"note"}]

GuardPrefs ==
  [enableChangeControl : BOOLEAN, excludeChangeControl : {<<>>},
   editable : {AllEditable \cup BooleanKeys,
               (AllEditable \cup BooleanKeys) \ {"destinationId"},
               AllEditable \ {"specialInstructions"}},
   enableLocationAutoCreate : BOOLEAN]

InitGuards ==
  InitStoresWith({Merge(o, [hotFlag |-> FALSE]) :
                    o \in {x \in InitialOrders : x.orderStatusId \in {"Received", "Accepted"}}},
                 {InitialParticipants}, {NoLinked}, GuardPrefs,
                 {{}, {"insertChangeReviews"}, {"insertChangeRequestLineItems"}})

GuardedEditOrder == \E in \in GuardInputs : FirstCall /\ EditOrder(in)

SpecGuards == InitGuards /\ [][GuardedEditOrder]_vars

\* SpecReviews: one editOrder call of a change-controlled field on a Received
\* order under change control, with any participant rows.
ReviewInputs ==
  {in \in EditOrderInputs :
     /\ "destinationId" \in DOMAIN in.shippingInformation
     /\ ExtraDataKey \notin DOMAIN in.shippingInformation
     /\ in.inputSubShip \in {EmptyObject, [lineItems |-> [addLineItems |-> {"li2"}]]}}

InitReviews ==
  InitStores({o \in InitialOrders : o.orderStatusId = "Received"},
             {orderParticipants(l) \cup {ForeignParticipant} : l \in ParticipantLists},
             {NoLinked}, {p \in InitialPrefs : p.enableChangeControl /\ p.excludeChangeControl = <<>>})

ReviewEditOrder == \E in \in ReviewInputs : FirstCall /\ EditOrder(in)

SpecReviews == InitReviews /\ [][ReviewEditOrder]_vars

\* SpecRace: two editOrder calls on the change-control path of one order, each
\* advancing from one awaited statement to the next, in any interleaving.
Procs == {"p1", "p2"}

RaceInputs ==
  {in \in EditOrderInputs :
     /\ ~in.integration
     /\ "destinationId" \in DOMAIN in.shippingInformation
     /\ ExtraDataKey \notin DOMAIN in.shippingInformation
     /\ in.inputSubShip \in {EmptyObject, [lineItems |-> [addLineItems |-> {"li2"}]]}}

\* The stores as a step left them; the record of the last whole call is kept.
Step(r) ==
  /\ order' = r.w.order
  /\ lineItems' = r.w.lineItems
  /\ lineItemCache' = r.w.lineItemCache
  /\ dependent' = r.w.dependent
  /\ changeRequests' = r.w.changeRequests
  /\ changeReviews' = r.w.changeReviews
  /\ crLineItems' = r.w.crLineItems
  /\ messages' = r.w.messages
  /\ locations' = r.w.locations
  /\ participants' = r.w.participants
  /\ created' = r.w.created
  /\ UNCHANGED <<linked, prefs, bookingReady, faults, nCalls, call>>

\* edit.ts 199-425: the gates, the checks, the route, and the first statement
\* of invokeChangeControl, which clears the readiness flag.
raceBegin(w, in) ==
  LET s0 == loadOrder(Start(w))
      s1 == checkVisibleAndEditable(s0, in)
      s2 == checkFieldsEditable(s1, Merge(in.shippingInformation, in.inputSubShip))
      s3 == checkLineItems(s2, Get(in.inputSubShip, "lineItems", EmptyObject))
  IN updateOrder(s3, [isReadyForBooking |-> FALSE], Null)

\* edit.ts 472-524, 362-379: the messages, the reviews, the line-item rows,
\* the Path C update, the recomputation and the final load.
raceFinish(w, in, orderChangeRequestId) ==
  LET li == Get(in.inputSubShip, "lineItems", EmptyObject)
      inputRest == Without(in.inputSubShip, {"lineItems", "orderStatusId"})
      s1 == createMongoMessagesEditOrder(Start(w), orderChangeRequestId, in.userId)
      s2 == insertChangeReviews(s1, orderChangeRequestId, in.userId)
      s3 == insertChangeRequestLineItems(s2, li, orderChangeRequestId)
      s4 == IF ~hasOnlyChangeControl(w.prefs, w.order, in.shippingInformation, li)
            THEN updateOrder(s3, Merge(inputRest, shippingNoChangeCtl(w.prefs, in.shippingInformation)),
                             Null)
            ELSE s3
  IN loadOrder(checkReadyForBookingResolver(s4))

InitRace ==
  InitStoresProcs({o \in InitialOrders : o.orderStatusId = "Received"}, {InitialParticipants},
                  {NoLinked},
                  {p \in InitialPrefs : p.enableChangeControl /\ p.excludeChangeControl = <<>>},
                  {{}},
                  [Procs -> {[pc |-> "begin", in |-> in, lastChangeRequest |-> 0,
                              changeRequestNumber |-> 0, orderChangeRequestId |-> 0] :
                               in \in RaceInputs}])

RaceBegin(p) ==
  /\ procs[p].pc = "begin"
  /\ hasChangeControl(prefs, order, procs[p].in.shippingInformation,
                      Get(procs[p].in.inputSubShip, "lineItems", EmptyObject))
  /\ Step(raceBegin(World, procs[p].in))
  /\ procs' = [procs EXCEPT ![p].pc = "read"]

\* lines 434-442
RaceRead(p) ==
  /\ procs[p].pc = "read"
  /\ procs' = [procs EXCEPT ![p].pc = "insert",
                            ![p].lastChangeRequest = lastChangeRequest(World, ThisOrder),
                            ![p].changeRequestNumber = nextChangeRequestNumber(World, ThisOrder)]
  /\ Step(Start(World))

\* lines 444-470
RaceInsert(p) ==
  /\ procs[p].pc = "insert"
  /\ LET r == insertNumberedChangeRequest(Start(World), procs[p].in.userId,
                                          Get(procs[p].in.inputSubShip, "lineItems", EmptyObject),
                                          procs[p].in.shippingInformation,
                                          procs[p].in.orderChangeRequestNote,
                                          procs[p].changeRequestNumber)
     IN /\ Step(r)
        /\ procs' = [procs EXCEPT ![p].pc = "finish", ![p].orderChangeRequestId = r.ret]

RaceFinish(p) ==
  /\ procs[p].pc = "finish"
  /\ Step(raceFinish(World, procs[p].in, procs[p].orderChangeRequestId))
  /\ procs' = [procs EXCEPT ![p].pc = "done"]

RaceBeginStep == \E p \in Procs : RaceBegin(p)
RaceReadStep == \E p \in Procs : RaceRead(p)
RaceInsertStep == \E p \in Procs : RaceInsert(p)
RaceFinishStep == \E p \in Procs : RaceFinish(p)

NextRace == RaceBeginStep \/ RaceReadStep \/ RaceInsertStep \/ RaceFinishStep

SpecRace == InitRace /\ [][NextRace]_vars

\* SpecLineItems: one editOrder call with a line-item instruction, on an order
\* with two line items, against a database that may fail one of the queries.
LineItemInstructions ==
  {[addLineItems |-> {"li3"}],
   [editLineItems |-> {[lineItemId |-> "li1", quantity |-> "q2"]}],
   [editLineItems |-> {[lineItemId |-> "li1", quantity |-> "q2"],
                       [lineItemId |-> "li2", quantity |-> "q2"]}],
   [editLineItems |-> {[lineItemId |-> "li3", quantity |-> "q2"]}],
   [removeLineItems |-> {"li2"}],
   [removeLineItems |-> {"li1", "li2"}],
   [replaceLineItems |-> {"li3"}],
   [addLineItems |-> {"li3"}, editLineItems |-> {[lineItemId |-> "li1", quantity |-> "q2"]},
    removeLineItems |-> {"li2"}],
   [replaceLineItems |-> {"li3"}, addLineItems |-> {"li2"}]}

LineItemInputs ==
  [userId : {"u1"}, integration : BOOLEAN, visible : {TRUE}, editable : {TRUE},
   shipToLocation : {Null},
   shippingInformation : {EmptyObject, [specialInstructions |-> "v1"]},
   inputSubShip : {[lineItems |-> li] : li \in LineItemInstructions},
   orderChangeRequestNote : {"note"}]

QueryFaults ==
  {{}} \cup {{Fault(k, kind)} : k \in LineItemKeys, kind \in FaultKinds}
       \cup {{Fault("addLineItems", "lineItemNoRows"), Fault("editLineItems", "throws")},
             {Fault("addLineItems", "noRecordset"), Fault("editLineItems", "noteNoRows")}}

TwoLineItems == [id \in {"li1", "li2"} |-> "q0"]

InitLineItems ==
  InitStoresItems({o \in InitialOrders : o.orderStatusId = "Received"}, {InitialParticipants},
                  {NoLinked},
                  {p \in InitialPrefs : p.excludeChangeControl = <<>>},
                  QueryFaults, {NoProcs}, {TwoLineItems}, {"empty", "primed"})

LineItemEditOrder == \E in \in LineItemInputs : FirstCall /\ EditOrder(in)

SpecLineItems == InitLineItems /\ [][LineItemEditOrder]_vars

\* SpecCache: one direct-path editOrder call that edits or removes line
\* items, next to requests that read line items through the shared loader.
CacheInputs ==
  {in \in LineItemInputs :
     /\ ~in.integration
     /\ in.shippingInformation = EmptyObject
     /\ DOMAIN in.inputSubShip.lineItems \cap {"editLineItems", "removeLineItems"} # {}
     /\ "replaceLineItems" \notin DOMAIN in.inputSubShip.lineItems}

\* edit.ts 199-348 on Path A: the gates, the checks (checkLineItems empties
\* the loader), the update of the order and its load.
directBegin(w, in) ==
  LET li == Get(in.inputSubShip, "lineItems", EmptyObject)
      inputRest == Without(in.inputSubShip, {"lineItems", "orderStatusId"})
      s0 == loadOrder(Start(w))
      s1 == checkVisibleAndEditable(s0, in)
      s2 == checkFieldsEditable(s1, Merge(in.shippingInformation, in.inputSubShip))
      s3 == checkLineItems(s2, li)
      s4 == updateOrder(s3, Merge(inputRest, Without(in.shippingInformation, {ExtraDataKey})),
                        Get(in.shippingInformation, ExtraDataKey, Null))
  IN loadOrder(s4)

\* edit.ts 349, 378-379: the line-item queries, the recomputation, the load.
directFinish(w, in) ==
  LET s1 == updateLineItems(Start(w), Get(in.inputSubShip, "lineItems", EmptyObject))
  IN loadOrder(checkReadyForBookingResolver(s1))

InitCache ==
  InitStoresItems({o \in InitialOrders : o.orderStatusId = "Received"}, {InitialParticipants},
                  {NoLinked},
                  {p \in InitialPrefs : ~p.enableChangeControl /\ p.excludeChangeControl = <<>>},
                  {{}},
                  [{"p1"} -> {[pc |-> "begin", in |-> in, err |-> NoError] : in \in CacheInputs}],
                  {TwoLineItems}, {"empty", "primed"})

CacheBegin(p) ==
  /\ procs[p].pc = "begin"
  /\ ~hasChangeControl(prefs, order, procs[p].in.shippingInformation,
                       procs[p].in.inputSubShip.lineItems)
  /\ Step(directBegin(World, procs[p].in))
  /\ procs' = [procs EXCEPT ![p].pc = "write"]

CacheWrite(p) ==
  /\ procs[p].pc = "write"
  /\ LET r == directFinish(World, procs[p].in)
     IN /\ Step(r)
        /\ procs' = [procs EXCEPT ![p].pc = "done", ![p].err = r.err]

\* dataLoaders.orderLineItemLoader.load(id) of another request: a row not in
\* the loader is read from the store and kept.
LoadLineItem(id) ==
  /\ id \in DOMAIN lineItems
  /\ id \notin DOMAIN lineItemCache
  /\ lineItemCache' = Merge(lineItemCache, [x \in {id} |-> lineItems[id]])
  /\ UNCHANGED <<order, lineItems, dependent, changeRequests, changeReviews, crLineItems,
                 messages, locations, participants, created, linked, prefs, bookingReady,
                 faults, procs, nCalls, call>>

CacheBeginStep == \E p \in DOMAIN procs : CacheBegin(p)
CacheWriteStep == \E p \in DOMAIN procs : CacheWrite(p)
LoadLineItemStep == \E i \in 1..Len(LineItemIds) : LoadLineItem(LineItemIds[i])

NextCache == CacheBeginStep \/ CacheWriteStep \/ LoadLineItemStep

SpecCache == InitCache /\ [][NextCache]_vars

\* SpecCreate: one createOrder call, with the callers, payloads and views of
\* participant rights below, on a database that fails at most one statement.
AllGatesPass ==
  [buyer |-> TRUE, userInOrg |-> TRUE, isBuyerRole |-> TRUE, externalRefused |-> FALSE,
   participant |-> TRUE, editable |-> TRUE]

CreateGates ==
  {AllGatesPass,
   [AllGatesPass EXCEPT !.buyer = FALSE], [AllGatesPass EXCEPT !.userInOrg = FALSE],
   [AllGatesPass EXCEPT !.isBuyerRole = FALSE], [AllGatesPass EXCEPT !.externalRefused = TRUE],
   [AllGatesPass EXCEPT !.participant = FALSE], [AllGatesPass EXCEPT !.editable = FALSE]}

Right(participantId, orgId, allowed) ==
  [participantId |-> participantId, orgId |-> orgId, isAllowedToAcceptChangeRequest |-> allowed]

\* Rows of OrderParticipantsRights, in the order the view returns them.
RightsViews ==
  {<<>>,
   <<Right("u2", BuyerOrg, FALSE), Right("u1", BuyerOrg, FALSE), Right("u3", SupplierOrg, TRUE)>>,
   <<Right("u1", BuyerOrg, FALSE), Right("u2", BuyerOrg, TRUE)>>,
   <<Right("u1", BuyerOrg, TRUE), Right("u2", SupplierOrg, TRUE), Right("u3", "otherOrg", TRUE)>>,
   <<Right("u3", ConsigneeOrg, TRUE)>>}

Destinations ==
  {[destinationId |-> "loc1", shipToLocation |-> Null],
   [destinationId |-> Null, shipToLocation |-> Null],
   [destinationId |-> Null, shipToLocation |-> "loc2"]}

CreateOrderInputs ==
  {Merge(Merge(g, d),
         [userId |-> "u1", participantId |-> "u2", integration |-> i, orgAutoCreate |-> a,
          purchaseOrderNumber |-> po, lineItems |-> li, extraData |-> x,
          supplierId |-> SupplierOrg, consigneeId |-> ConsigneeOrg, rights |-> r]) :
     g \in CreateGates, d \in Destinations, i \in BOOLEAN, a \in BOOLEAN,
     po \in {Null, "PO7"}, li \in {{}, {"li1"}}, x \in {<<>>, <<"x1">>}, r \in RightsViews}

CreateFaults ==
  {{}} \cup {{f} : f \in {"insertOrder", "createOrderParticipants", "createExtraData",
                           "createOrderMilestones", "commitTransaction",
                           "genAndUpdatePONumber", "addLineItemsToOrder",
                           "createMongoMessagesCreateOrder", "createPOMessageThread"}}

InitCreate ==
  InitStoresWith({o \in InitialOrders : o.orderStatusId = "Received"},
                 {InitialParticipants}, {NoLinked},
                 [enableChangeControl : {TRUE}, excludeChangeControl : {<<>>},
                  editable : {AllEditable}, enableLocationAutoCreate : BOOLEAN],
                 CreateFaults)

CreateOrder(in) == Commit("createOrder", in, createOrder(World, in))

CallCreateOrder == \E in \in CreateOrderInputs : FirstCall /\ CreateOrder(in)

SpecCreate == InitCreate /\ [][CallCreateOrder]_vars

\* SpecStatusRace: an editOrder call on the change-control path, in the
\* steps of SpecRace, side by side with an editOrderStatus call on the same
\* order.  Each step runs from one await to a later one.
EditProc == "p1"
StatusProc == "p2"

\* edit.ts 114-174: the load, the veto, the reset and the readiness check of
\* an accept; the result carries updateBookingReady in s.ret.
statusBegin(w, orderStatusId) ==
  LET s0 == loadOrder(Start(w))
      s1 == cancelVeto(s0, orderStatusId)
      s2 == resetIfCanceledOrRejected(s1, orderStatusId)
  IN acceptOrder(s2, s0.w.order, orderStatusId)

\* edit.ts 176-180: the update and the final load.
statusFinish(w, orderStatusId, updateBookingReady) ==
  loadOrder(updateOrder(Start(w), Merge([orderStatusId |-> orderStatusId], updateBookingReady),
                        Null))

InitStatusRace ==
  /\ InitStoresProcs({o \in InitialOrders : o.orderStatusId \in {"Received", "Accepted"}},
                     {InitialParticipants}, {NoLinked, ActiveBookingRequest},
                     {p \in InitialPrefs : p.enableChangeControl /\ p.excludeChangeControl = <<>>},
                     {{}},
                     {[x \in {EditProc, StatusProc} |->
                         IF x = EditProc
                         THEN [pc |-> "begin", in |-> in, lastChangeRequest |-> 0,
                               changeRequestNumber |-> 0, orderChangeRequestId |-> 0]
                         ELSE [pc |-> "begin", orderStatusId |-> st,
                               updateBookingReady |-> EmptyObject, err |-> NoError]] :
                        in \in RaceInputs, st \in OrderStatuses \ {"Issued"}})

StatusBegin ==
  /\ procs[StatusProc].pc = "begin"
  /\ LET r == statusBegin(World, procs[StatusProc].orderStatusId)
     IN /\ Step(r)
        /\ procs' = [procs EXCEPT ![StatusProc].pc = IF Ok(r) THEN "update" ELSE "done",
                                  ![StatusProc].updateBookingReady =
                                     IF Ok(r) THEN r.ret ELSE EmptyObject,
                                  ![StatusProc].err = r.err]

StatusUpdate ==
  /\ procs[StatusProc].pc = "update"
  /\ Step(statusFinish(World, procs[StatusProc].orderStatusId,
                       procs[StatusProc].updateBookingReady))
  /\ procs' = [procs EXCEPT ![StatusProc].pc = "done"]

EditBegin == RaceBegin(EditProc)
EditRead == RaceRead(EditProc)
EditInsert == RaceInsert(EditProc)
EditFinish == RaceFinish(EditProc)

NextStatusRace ==
  EditBegin \/ EditRead \/ EditInsert \/ EditFinish \/ StatusBegin \/ StatusUpdate

SpecStatusRace == InitStatusRace /\ [][NextStatusRace]_vars

\* SpecParticipantsRace: two editOrderParticipants calls on the same order,
\* each in three steps: the checks (edit-participants.ts 14-61), the delete
\* (64-69) and the insert with what follows it (71-97).
MaxListLen == 2

RaceParticipantLists == {l \in {ListOf(f) : f \in [Users -> {"absent", "plain", "approver"}]} : Len(l) <= MaxListLen}

RaceParticipantsInputs ==
  [userId : {"u1"}, permissions : {{}, {"ADMIN"}}, participants : RaceParticipantLists,
   associated : {Users}, insertFails : BOOLEAN]

\* The highest id among the stored rows: ids of new rows lie above it.
MaxParticipantId(rows) ==
  IF rows = {} THEN 0 ELSE CHOOSE n \in {r.id : r \in rows} : \A r \in rows : r.id <= n

\* The rows an insert of the list creates in a table that holds rows already:
\* each row gets an id of its own.
orderParticipantsAfter(rows, newParticipants) ==
  {[id |-> MaxParticipantId(rows) + i, orderId |-> ThisOrder,
    userId |-> newParticipants[i].userId,
    approvalIsRequired |-> newParticipants[i].approvalIsRequired] :
     i \in 1..Len(newParticipants)}

\* edit-participants.ts 14-61
participantsChecks(w, in) ==
  LET isIntegration == checkPermissions(in.permissions, {"INTEGRATION"})
  IN checkAllowedToEdit(checkAssociated(Emit(Start(w), "load"), in, isIntegration), in,
                        isIntegration)

\* edit-participants.ts 64-69
participantsDelete(w, in) ==
  LET s == deleteParticipants(Start(w))
  IN IF Len(in.participants) < 1 THEN [editPOMessageThread(s) EXCEPT !.ret = {}] ELSE s

\* edit-participants.ts 71-97
participantsInsert(w, in) ==
  LET s1 == Emit(Start(w), "startTransaction")
  IN IF in.insertFails THEN Throw(Emit(s1, "insert"), "Failed to create participants")
     ELSE LET rows == orderParticipantsAfter(w.participants, in.participants)
              s2 == Emit([s1 EXCEPT !.w.participants = @ \cup rows], "insert")
              s3 == Emit(Emit(s2, "commitTransaction"), "release")
          IN [editPOMessageThread(s3) EXCEPT !.ret = {r.id : r \in rows}]

InitParticipantsRace ==
  InitStoresProcs({o \in InitialOrders : o.orderStatusId = "Received"},
                  {InitialParticipants}, {NoLinked},
                  {p \in InitialPrefs : p.enableChangeControl /\ p.excludeChangeControl = <<>>},
                  {{}},
                  {[x \in Procs |-> [pc |-> "begin", in |-> IF x = "p1" THEN in1 ELSE in2,
                                     err |-> NoError, ret |-> {}]] :
                     in1 \in RaceParticipantsInputs, in2 \in RaceParticipantsInputs})

ParticipantsChecks(p) ==
  /\ procs[p].pc = "begin"
  /\ LET r == participantsChecks(World, procs[p].in)
     IN /\ Step(r)
        /\ procs' = [procs EXCEPT ![p].pc = IF Ok(r) THEN "delete" ELSE "done",
                                  ![p].err = r.err]

ParticipantsDelete(p) ==
  /\ procs[p].pc = "delete"
  /\ LET r == participantsDelete(World, procs[p].in)
     IN /\ Step(r)
        /\ procs' = [procs EXCEPT ![p].pc = IF Len(procs[p].in.participants) < 1
                                            THEN "done" ELSE "insert"]

ParticipantsInsert(p) ==
  /\ procs[p].pc = "insert"
  /\ LET r == participantsInsert(World, procs[p].in)
     IN /\ Step(r)
        /\ procs' = [procs EXCEPT ![p].pc = "done", ![p].err = r.err, ![p].ret = r.ret]

ParticipantsChecksStep == \E p \in Procs : ParticipantsChecks(p)
ParticipantsDeleteStep == \E p \in Procs : ParticipantsDelete(p)
ParticipantsInsertStep == \E p \in Procs : ParticipantsInsert(p)

NextParticipantsRace == ParticipantsChecksStep \/ ParticipantsDeleteStep \/ ParticipantsInsertStep

SpecParticipantsRace == InitParticipantsRace /\ [][NextParticipantsRace]_vars

(* ------------------------------------------------------------------ *)
(* Vocabulary of the properties                                         *)
(* ------------------------------------------------------------------ *)
IsEditOrder == call.op = "editOrder"
NonIntegrationEdit == IsEditOrder /\ ~call.in.integration
IntegrationEdit == IsEditOrder /\ call.in.integration
Succeeded == call.err = NoError

\* Rows the last call added.
CreatedChangeRequests == Len(changeRequests) - Len(call.pre.changeRequests)
CreatedReviews == changeReviews \ call.pre.changeReviews
CreatedChangeRequestLineItems == crLineItems \ call.pre.crLineItems
NoChangeControlRows ==
  /\ CreatedChangeRequests = 0
  /\ CreatedReviews = {}
  /\ CreatedChangeRequestLineItems = {}

\* The exclusion list in force: the preference when set, else the default.
ExclusionList ==
  IF prefs.excludeChangeControl = <<>>
  THEN {"cargoReadyDate", "hotFlag", "specialInstructions"}
  ELSE prefs.excludeChangeControl[1]

\* The payload of the last editOrder call.
PayloadShippingFields == (DOMAIN call.in.shippingInformation) \ {"extraData"}
PayloadControlledFields == PayloadShippingFields \ ExclusionList
PayloadExcludedFields == PayloadShippingFields \cap ExclusionList
PayloadHasExtraData == "extraData" \in DOMAIN call.in.shippingInformation
PayloadLineItems ==
  IF "lineItems" \in DOMAIN call.in.inputSubShip THEN call.in.inputSubShip.lineItems
  ELSE EmptyObject
PayloadStatus ==
  IF "orderStatusId" \in DOMAIN call.in.inputSubShip THEN call.in.inputSubShip.orderStatusId
  ELSE Null
PayloadTopLevelFields == (DOMAIN call.in.inputSubShip) \ {"lineItems", "orderStatusId"}

\* The payload asks for another status than the order has.
PayloadChangesStatus == PayloadStatus # Null /\ PayloadStatus # call.pre.order.orderStatusId

\* The status the order has when the route is chosen: the payload's status
\* change, if any, has been applied by then.
StatusAtRouting == IF PayloadChangesStatus THEN PayloadStatus ELSE call.pre.order.orderStatusId

ReceivedOrAccepted(st) == st \in {"Received", "Accepted"}

AppliedDirectly(k) == order[k] = call.in.shippingInformation[k]
NotApplied(k) == order[k] = call.pre.order[k]

(* ------------------------------------------------------------------ *)
(* C1                                                                   *)
(* ------------------------------------------------------------------ *)
\* C1: a non-integration editOrder call that completes creates a change request
\* (exactly one) if and only if, when the route is chosen, enableChangeControl
\* is true, the order's status is Received or Accepted, and the payload holds a
\* shipping field outside the exclusion list or a non-empty lineItems
\* instruction; otherwise it creates none.
C1_ChangeRequestIffChangeControl ==
  (NonIntegrationEdit /\ Succeeded) =>
    /\ CreatedChangeRequests \in {0, 1}
    /\ CreatedChangeRequests = 1 <=>
         /\ prefs.enableChangeControl
         /\ ReceivedOrAccepted(StatusAtRouting)
         /\ (PayloadControlledFields # {} \/ DOMAIN PayloadLineItems # {})

\* A change request raised by a line-item instruction alone, on an order that
\* the same payload moved to Accepted.
C1_Witness ==
  /\ NonIntegrationEdit /\ Succeeded
  /\ CreatedChangeRequests = 1
  /\ PayloadControlledFields = {}
  /\ DOMAIN PayloadLineItems # {}
  /\ PayloadChangesStatus

(* ------------------------------------------------------------------ *)
(* C2                                                                   *)
(* ------------------------------------------------------------------ *)
\* C2 as stated: on an order that is neither Received nor Accepted when the
\* call is made, a non-integration edit of a change-controlled shipping field
\* is applied directly and creates no change-control row, whatever else the
\* payload holds.
C2_Original ==
  (/\ NonIntegrationEdit /\ Succeeded
   /\ ~ReceivedOrAccepted(call.pre.order.orderStatusId)
   /\ PayloadControlledFields # {}) =>
    /\ NoChangeControlRows
    /\ \A k \in PayloadControlledFields : AppliedDirectly(k)

\* C2 amended: the status that counts is the one the order has when the route
\* is chosen, after the payload's own status change: if that status is neither
\* Received nor Accepted, the change-controlled field is applied directly and
\* no change request, review or change-request line-item row is created.
C2_DirectWhenNotReceivedOrAccepted ==
  (/\ NonIntegrationEdit /\ Succeeded
   /\ ~ReceivedOrAccepted(StatusAtRouting)
   /\ PayloadControlledFields # {}) =>
    /\ NoChangeControlRows
    /\ \A k \in PayloadControlledFields : AppliedDirectly(k)

\* An Accepted order under change control that the payload itself rejects: the
\* controlled field of the same payload is written to the order.
C2_Witness ==
  /\ NonIntegrationEdit /\ Succeeded
  /\ prefs.enableChangeControl
  /\ call.pre.order.orderStatusId = "Accepted"
  /\ PayloadStatus = "Rejected"
  /\ PayloadControlledFields # {}
  /\ \A k \in PayloadControlledFields : order[k] # call.pre.order[k]

(* ------------------------------------------------------------------ *)
(* C3                                                                   *)
(* ------------------------------------------------------------------ *)
\* The payload holds change-controlled shipping fields and nothing else.
OnlyControlledFields ==
  /\ PayloadControlledFields # {}
  /\ PayloadExcludedFields = {}
  /\ ~PayloadHasExtraData
  /\ DOMAIN call.in.inputSubShip = {}

PathBCase ==
  /\ NonIntegrationEdit /\ Succeeded
  /\ call.pre.order.orderStatusId = "Accepted"
  /\ prefs.enableChangeControl
  /\ OnlyControlledFields

\* C3 as stated: Path B creates exactly one change request and performs no
\* direct mutation of the order: no field of the order row changes and no
\* update of the order is issued.
C3_Original ==
  PathBCase =>
    /\ CreatedChangeRequests = 1
    /\ order = call.pre.order
    /\ ~Occurs(call.log, "updateOrder")

\* C3 amended: Path B creates exactly one change request and leaves every
\* field of the order, its extra data and its line items as they were, except
\* isReadyForBooking, which the call writes.
C3_PathBOnlyTouchesReadyFlag ==
  PathBCase =>
    /\ CreatedChangeRequests = 1
    /\ \A k \in (DOMAIN order) \ {"isReadyForBooking"} : order[k] = call.pre.order[k]
    /\ lineItems = call.pre.lineItems

\* Path B on an order that was ready for booking: the flag is cleared.
C3_Witness ==
  /\ PathBCase
  /\ call.path = "B"
  /\ call.pre.order.isReadyForBooking
  /\ ~order.isReadyForBooking

(* ------------------------------------------------------------------ *)
(* C4                                                                   *)
(* ------------------------------------------------------------------ *)
PathCCase ==
  /\ NonIntegrationEdit /\ Succeeded
  /\ call.pre.order.orderStatusId = "Accepted"
  /\ ~PayloadChangesStatus
  /\ prefs.enableChangeControl
  /\ PayloadControlledFields # {}
  /\ PayloadExcludedFields # {}

\* C4: on an Accepted order under change control, one non-integration call
\* that edits a change-controlled and an excluded shipping field creates
\* exactly one change request, writes the excluded field to the order and
\* leaves the change-controlled field of the order as it was.
C4_PathCSplitsTheEdit ==
  PathCCase =>
    /\ CreatedChangeRequests = 1
    /\ \A k \in PayloadExcludedFields : AppliedDirectly(k)
    /\ \A k \in PayloadControlledFields : NotApplied(k)

\* Path C with new values for both fields.
C4_Witness ==
  /\ PathCCase
  /\ call.path = "C"
  /\ \A k \in PayloadShippingFields : call.in.shippingInformation[k] # call.pre.order[k]

(* ------------------------------------------------------------------ *)
(* C5                                                                   *)
(* ------------------------------------------------------------------ *)
\* The line items after the instruction li was applied to rows.
LineItemsApplied(rows, li) ==
  /\ "addLineItems" \in DOMAIN li => li.addLineItems \subseteq DOMAIN lineItems
  /\ "removeLineItems" \in DOMAIN li => li.removeLineItems \cap DOMAIN lineItems = {}
  /\ "replaceLineItems" \in DOMAIN li => DOMAIN lineItems = li.replaceLineItems
  /\ "editLineItems" \in DOMAIN li =>
       \A e \in li.editLineItems :
         e.lineItemId \in DOMAIN rows => lineItems[e.lineItemId] = e.quantity

\* The last resetOrder of the call is followed at once by the update that
\* writes the payload.
ResetThenApply ==
  \E i \in 1..(Len(call.log) - 1) :
    /\ call.log[i] = "resetOrder"
    /\ call.log[i + 1] = "updateOrder"
    /\ \A j \in (i + 1)..Len(call.log) : call.log[j] # "resetOrder"
    /\ \A j \in (i + 2)..Len(call.log) : call.log[j] # "updateOrder"

\* C5: an editOrder call with the integration permission never creates a
\* change request, review or change-request line-item row; when it completes,
\* it has reset the order and then written the payload's fields, extra data
\* and line items to the order, whatever the status and the preference.
C5_IntegrationBypassesChangeControl ==
  IntegrationEdit =>
    /\ NoChangeControlRows
    /\ Succeeded =>
         /\ ResetThenApply
         /\ \A k \in DOMAIN call.in.shippingInformation : AppliedDirectly(k)
         /\ \A k \in PayloadTopLevelFields : order[k] = call.in.inputSubShip[k]
         /\ PayloadStatus # Null => order.orderStatusId = PayloadStatus
         /\ LineItemsApplied(call.pre.lineItems, PayloadLineItems)

\* An integration edit of a controlled field and line items on an Accepted
\* order under change control.
C5_Witness ==
  /\ IntegrationEdit /\ Succeeded
  /\ prefs.enableChangeControl
  /\ call.pre.order.orderStatusId = "Accepted"
  /\ ~PayloadChangesStatus
  /\ PayloadControlledFields # {}
  /\ DOMAIN PayloadLineItems # {}
  /\ \A k \in PayloadControlledFields : order[k] # call.pre.order[k]

(* ------------------------------------------------------------------ *)
(* C7                                                                   *)
(* ------------------------------------------------------------------ *)
\* C7: of the review rows of a change request, the one whose approver is the
\* request's author is Approved with a review date, and every other one is
\* Proposed without a review date.
C7_SelfApproval ==
  \A r \in changeReviews :
    LET cr == changeRequests[r.orderChangeRequestId]
    IN IF r.entityId = cr.entityId
       THEN r.changeStatusId = "Approved" /\ r.reviewDate # Null
       ELSE r.changeStatusId = "Proposed" /\ r.reviewDate = Null

\* A change request by approver u1: u1's row is Approved, u2's is Proposed.
C7_Witness ==
  \E r1, r2 \in changeReviews :
    /\ r1.orderChangeRequestId = r2.orderChangeRequestId
    /\ r1.entityId = changeRequests[r1.orderChangeRequestId].entityId
    /\ r1.changeStatusId = "Approved"
    /\ r2.entityId # r1.entityId
    /\ r2.changeStatusId = "Proposed"

(* ------------------------------------------------------------------ *)
(* C9, C10: the cancellation veto                                       *)
(* ------------------------------------------------------------------ *)
\* A record linked to the order that forbids cancelling it.
VetoExists ==
  \/ \E br \in linked.bookingRequests : br.bookingStatusId # "BookingCanceled"
  \/ \E bc \in linked.confirmations :
       /\ bc.liDeletedAt = Null
       /\ bc.createdAt # bc.updatedAt
       /\ bc.statusId = Null \/ bc.statusId # "BookingCanceled"
  \/ \E sh \in linked.shipments :
       /\ sh.liDeletedAt = Null
       /\ sh.createdAt # sh.updatedAt
       /\ sh.shipmentStatusId = Null \/ sh.shipmentStatusId # "ShipmentCanceled"

\* The last call ran the status change to Canceled: editOrderStatus itself, or
\* an editOrder whose payload asks for Canceled on an order that is not.
CancelRequested ==
  \/ call.op = "editOrderStatus" /\ call.in.orderStatusId = "Canceled"
  \/ IsEditOrder /\ PayloadStatus = "Canceled" /\ PayloadChangesStatus

\* C10: when a change to Canceled is requested, no resetOrder and no update of
\* the order happens before canOrderBeCancelled was evaluated; and when a veto
\* exists the call fails with the rejection and leaves the order row (status,
\* readiness flag and all) and the dependent state as they were.
C10_VetoBeforeResetAndUpdate ==
  CancelRequested =>
    /\ \A i \in 1..Len(call.log) :
         call.log[i] \in {"resetOrder", "updateOrder"} =>
           \E j \in 1..(i - 1) : call.log[j] = "canOrderBeCancelled"
    /\ VetoExists =>
         /\ call.err = CannotCancel
         /\ order = call.pre.order
         /\ dependent = call.pre.dependent

\* A vetoed cancel asked for through an integration edit that also carries
\* fields: nothing was reset or written.
C10_Witness ==
  /\ IntegrationEdit
  /\ CancelRequested
  /\ VetoExists
  /\ call.err = CannotCancel
  /\ DOMAIN call.in.shippingInformation # {}
  /\ call.pre.order.orderStatusId = "Accepted"
  /\ call.pre.order.isReadyForBooking

(* ------------------------------------------------------------------ *)
(* C6: change-request numbering                                         *)
(* ------------------------------------------------------------------ *)
\* The change requests of the order, in creation order.
OrderChangeRequests == SelectSeq(changeRequests, LAMBDA r : r.orderId = ThisOrder)

\* C6: after any sequence of calls made one after the other, the order's first
\* change request has number 1, each later one has the previous highest number
\* plus one, so the numbers are 1..n in creation order and no two are equal;
\* another order's change requests do not enter the count.
C6_NumbersAreConsecutive ==
  /\ \A i \in 1..Len(OrderChangeRequests) : OrderChangeRequests[i].changeRequestNumber = i
  /\ \A i, j \in 1..Len(changeRequests) :
       (i # j /\ changeRequests[i].orderId = changeRequests[j].orderId) =>
         changeRequests[i].changeRequestNumber # changeRequests[j].changeRequestNumber

\* Three change requests of the order, created by different users, next to a
\* change request of another order that carries a higher number.
C6_Witness ==
  /\ Len(OrderChangeRequests) >= 3
  /\ OrderChangeRequests[3].changeRequestNumber = 3
  /\ \E i, j \in 1..3 : OrderChangeRequests[i].entityId # OrderChangeRequests[j].entityId
  /\ \E i \in 1..Len(changeRequests) :
       changeRequests[i].orderId = OtherOrder /\ changeRequests[i].changeRequestNumber > 3

(* ------------------------------------------------------------------ *)
(* C8: the participants guard                                           *)
(* ------------------------------------------------------------------ *)
IsEditParticipants == call.op = "editOrderParticipants"

Unprivileged ==
  IsEditParticipants /\ call.in.permissions \cap {"ADMIN", "STAFF", "INTEGRATION"} = {}

\* The acting user and every proposed participant belong to an associated company.
AssociationPassed ==
  /\ call.in.userId \in call.in.associated
  /\ \A i \in 1..Len(call.in.participants) :
       call.in.participants[i].userId \in call.in.associated

ParticipantsOf(w) == {p \in w.participants : p.orderId = ThisOrder}
Pairs(rows) == {<<r.userId, r.approvalIsRequired>> : r \in rows}
ProposedPairs ==
  {<<call.in.participants[i].userId, call.in.participants[i].approvalIsRequired>> :
     i \in 1..Len(call.in.participants)}
ProposedUsers == {x[1] : x \in ProposedPairs}

OtherControllers ==
  {c \in ParticipantsOf(call.pre) : c.approvalIsRequired /\ c.userId # call.in.userId}

\* The acting user is a required approver and the proposed list is the current
\* one with that user's flag cleared.
ChangesOnlyOwnFlag ==
  /\ <<call.in.userId, TRUE>> \in Pairs(ParticipantsOf(call.pre))
  /\ Len(call.in.participants) = Cardinality(ParticipantsOf(call.pre))
  /\ ProposedPairs = (Pairs(ParticipantsOf(call.pre)) \ {<<call.in.userId, TRUE>>})
                       \cup {<<call.in.userId, FALSE>>}

\* C8: for a caller without admin, staff or integration permission who passed
\* the association checks: changing only the caller's own approvalIsRequired
\* flag passes the guard (the old rows are deleted and, when the insert works,
\* the proposed list is stored); a list that omits another current required
\* approver is rejected with 'Unauthorized change controller modification' and
\* no participant row is changed. For admin, staff and integration callers the
\* guard is not evaluated.
C8_ParticipantsGuard ==
  /\ (Unprivileged /\ AssociationPassed /\ ChangesOnlyOwnFlag) =>
       /\ call.err # UnauthorizedModification
       /\ Occurs(call.log, "OrderParticipant.delete")
       /\ call.err = NoError => Pairs(ParticipantsOf(World)) = ProposedPairs
  /\ (Unprivileged /\ AssociationPassed
        /\ \E c \in OtherControllers : c.userId \notin ProposedUsers) =>
       /\ call.err = UnauthorizedModification
       /\ participants = call.pre.participants
  /\ (IsEditParticipants /\ ~Unprivileged) =>
       ~Occurs(call.log, "isAllowedToEditParticipants")

\* A required approver clears their own flag next to another required approver
\* who stays as they were, and the edit is stored.
C8_Witness ==
  /\ Unprivileged
  /\ AssociationPassed
  /\ ChangesOnlyOwnFlag
  /\ OtherControllers # {}
  /\ call.err = NoError
  /\ <<call.in.userId, FALSE>> \in Pairs(ParticipantsOf(World))
  /\ Occurs(call.log, "isAllowedToEditParticipants")

(* ------------------------------------------------------------------ *)
(* C9: what canOrderBeCancelled answers                                 *)
(* ------------------------------------------------------------------ *)
\* editOrderStatus rejects a change to Canceled exactly when
\* canOrderBeCancelled answered false.
CancelAllowed ==
  /\ Occurs(call.log, "canOrderBeCancelled")
  /\ call.err # CannotCancel

\* Every linked confirmation is untouched since creation.
OnlyUntouchedConfirmations ==
  /\ linked.bookingRequests = {}
  /\ linked.shipments = {}
  /\ linked.confirmations # {}
  /\ \A bc \in linked.confirmations : bc.createdAt = bc.updatedAt

\* C9: canOrderBeCancelled answers true exactly when the order has no booking
\* request outside the canceled status, no touched confirmation (through a live
\* line item) with a null or non-canceled status, and no touched shipment
\* (through a live line item) with a null or non-canceled shipment status. One
\* active booking request is enough for false; with only untouched
\* confirmations the answer is true.
C9_CancelIffNothingVetoes ==
  (call.op = "editOrderStatus" /\ call.in.orderStatusId = "Canceled") =>
    /\ CancelAllowed <=> ~VetoExists
    /\ (\E br \in linked.bookingRequests : br.bookingStatusId # "BookingCanceled")
         => ~CancelAllowed
    /\ OnlyUntouchedConfirmations => CancelAllowed

\* The only linked record is a non-canceled confirmation never touched since
\* creation, and the order was canceled.
C9_Witness ==
  /\ call.op = "editOrderStatus"
  /\ call.in.orderStatusId = "Canceled"
  /\ OnlyUntouchedConfirmations
  /\ \E bc \in linked.confirmations : bc.statusId = "Confirmed" /\ bc.liDeletedAt = Null
  /\ CancelAllowed
  /\ order.orderStatusId = "Canceled"

(* ------------------------------------------------------------------ *)
(* C11: the order returned                                              *)
(* ------------------------------------------------------------------ *)
\* What a call writes to the order, its line items and its change-control rows.
MutationEvents ==
  {"updateOrder", "resetOrder", "replaceLineItems", "addLineItems", "editLineItems",
   "removeLineItems", "insertChangeRequest", "insertChangeReviews",
   "insertChangeRequestLineItems", "checkReadyForBooking:update"}

\* C11: on every path, the order a completed editOrder call returns was read
\* from the store after the call's last write to the order, its line items and
\* its change-control rows (the ready-for-booking recomputation included), and
\* it equals the order stored when the call returns.
C11_ReturnsCommittedOrder ==
  (IsEditOrder /\ Succeeded) =>
    /\ call.ret = order
    /\ \E i \in 1..Len(call.log) :
         /\ call.log[i] = "load"
         /\ \A j \in (i + 1)..Len(call.log) : call.log[j] \notin MutationEvents

\* A direct edit after which the recomputation changed the readiness flag: the
\* returned order carries the recomputed flag.
C11_Witness ==
  /\ NonIntegrationEdit /\ Succeeded
  /\ call.path = "A"
  /\ Occurs(call.log, "checkReadyForBooking:update")
  /\ call.ret.isReadyForBooking # call.pre.order.isReadyForBooking
  /\ call.ret = order

(* ------------------------------------------------------------------ *)
(* C12: repeating the stored values                                     *)
(* ------------------------------------------------------------------ *)
\* Every field of the payload carries the value the order stores, and the
\* payload holds no line-item instruction.
SameAsStored ==
  /\ \A k \in DOMAIN call.in.shippingInformation :
       call.in.shippingInformation[k] = call.pre.order[k]
  /\ \A k \in PayloadTopLevelFields : call.in.inputSubShip[k] = call.pre.order[k]
  /\ PayloadStatus \in {Null, call.pre.order.orderStatusId}
  /\ DOMAIN PayloadLineItems = {}

RepeatCase ==
  /\ NonIntegrationEdit /\ Succeeded
  /\ prefs.enableChangeControl
  /\ ReceivedOrAccepted(call.pre.order.orderStatusId)
  /\ SameAsStored

\* C12 as stated: a payload that repeats the stored values creates no change
\* request and leaves the stored fields of the order unchanged.
C12_Original ==
  RepeatCase =>
    /\ CreatedChangeRequests = 0
    /\ order = call.pre.order

\* C12 amended: a payload that repeats the stored values creates no change
\* request exactly when it holds no change-controlled shipping field (one that
\* does creates a change request: the route depends on which fields are
\* present, not on their values), and it leaves every stored field of the
\* order other than isReadyForBooking unchanged.
C12_RepeatKeepsStoredFields ==
  RepeatCase =>
    /\ CreatedChangeRequests = 0 <=> PayloadControlledFields = {}
    /\ \A k \in (DOMAIN order) \ {"isReadyForBooking"} : order[k] = call.pre.order[k]
    /\ lineItems = call.pre.lineItems

\* An excluded field and a top-level field repeated: the order is written with
\* the values it had and no change request appears.
C12_Witness ==
  /\ RepeatCase
  /\ PayloadExcludedFields # {}
  /\ PayloadTopLevelFields # {}
  /\ PayloadControlledFields = {}
  /\ Occurs(call.log, "updateOrder")
  /\ CreatedChangeRequests = 0
  /\ order = call.pre.order

(* ------------------------------------------------------------------ *)
(* C13: conflicting line-item instructions                              *)
(* ------------------------------------------------------------------ *)
\* The instruction combines replace with add, edit or remove, or edits and
\* removes the same line item.
InstructionConflicts ==
  LET li == PayloadLineItems
  IN \/ /\ "replaceLineItems" \in DOMAIN li
        /\ DOMAIN li \cap {"addLineItems", "editLineItems", "removeLineItems"} # {}
     \/ /\ {"editLineItems", "removeLineItems"} \subseteq DOMAIN li
        /\ \E e \in li.editLineItems : e.lineItemId \in li.removeLineItems

\* No store differs from what it was before the call.
StoresUnchanged == World = call.pre

\* C13 as stated: an editOrder call with a conflicting line-item instruction
\* is rejected and, on either path, no store (order, line items, change
\* requests, locations, ...) was modified by it.
C13_Original ==
  (IsEditOrder /\ InstructionConflicts) =>
    /\ ~Succeeded
    /\ StoresUnchanged

(* ------------------------------------------------------------------ *)
(* C14: fields the caller may not edit                                  *)
(* ------------------------------------------------------------------ *)
\* The editable-order keys of the payload that the header-field configuration
\* does not mark editable.
PayloadFieldsNotEditable ==
  {k \in (DOMAIN call.in.shippingInformation) \cup (DOMAIN call.in.inputSubShip) :
     isEditOrderKey(k) /\ k \notin prefs.editable}

\* C14 as stated: a non-integration call (that passed the visibility and
\* editability gates) whose payload holds an editable-order key not marked
\* editable fails with an error naming such a field and modifies no store; an
\* integration call never runs the field-level check.
C14_Original ==
  /\ (NonIntegrationEdit /\ call.in.visible /\ call.in.editable
        /\ PayloadFieldsNotEditable # {}) =>
       /\ \E k \in PayloadFieldsNotEditable : call.err = NoPermissionToEdit \o k
       /\ StoresUnchanged
  /\ IntegrationEdit => ~Occurs(call.log, "getPreferences")

(* ------------------------------------------------------------------ *)
(* C15: callers refused at the gate                                     *)
(* ------------------------------------------------------------------ *)
\* C15: when the order is not visible to the acting user, or isOrderEditable
\* reports it not editable, editOrder fails and every store (order, line
\* items, change requests, reviews, participants, messages, locations) is as
\* it was before the call, on the integration path too.
C15_RefusedCallChangesNothing ==
  (IsEditOrder /\ (~call.in.visible \/ ~call.in.editable)) =>
    /\ ~Succeeded
    /\ StoresUnchanged

\* An integration call on an order that is visible but not editable, carrying
\* an unknown location, a field and a line-item instruction: nothing was
\* created or written.
C15_Witness ==
  /\ IntegrationEdit
  /\ call.in.visible /\ ~call.in.editable
  /\ prefs.enableLocationAutoCreate
  /\ call.in.shipToLocation # Null
  /\ DOMAIN call.in.shippingInformation # {}
  /\ DOMAIN PayloadLineItems # {}
  /\ call.err = "Order is not editable."
  /\ locations = {}
  /\ order = call.pre.order

(* ------------------------------------------------------------------ *)
(* C16: atomicity of change-request creation                            *)
(* ------------------------------------------------------------------ *)
\* C16 as stated: the change request row, its review rows and its line-item
\* delta rows are committed together or not at all: a call in which one of
\* the inserts failed leaves no row of that change request.
C16_Original ==
  (IsEditOrder /\ ~Succeeded) => NoChangeControlRows

(* ------------------------------------------------------------------ *)
(* C17: transactions are closed                                         *)
(* ------------------------------------------------------------------ *)
\* C17 as stated: a transaction that a call started has, when the call ends,
\* been committed or rolled back, and its connection released, also when the
\* insert inside it threw.
C17_Original ==
  (IsEditParticipants /\ Occurs(call.log, "startTransaction")) =>
    /\ Occurs(call.log, "commitTransaction") \/ Occurs(call.log, "rollbackTransaction")
    /\ Occurs(call.log, "release")

(* ------------------------------------------------------------------ *)
(* C18: the readiness flag under change control                         *)
(* ------------------------------------------------------------------ *)
SubmittedChangeRequest ==
  NonIntegrationEdit /\ Succeeded /\ call.path \in {"B", "C"}

CurrentControllers == {c \in ParticipantsOf(call.pre) : c.approvalIsRequired}

\* The self-affected count: one for each row of the acting user.
SelfAffected == Cardinality({c \in CurrentControllers : c.userId = call.in.userId})

\* Other required approvers absent from the proposed list or present in it
\* with another flag.
OthersMutated ==
  {c \in OtherControllers :
     \/ c.userId \notin ProposedUsers
     \/ <<c.userId, ~c.approvalIsRequired>> \in ProposedPairs}

ControllerMutations == SelfAffected + Cardinality(OthersMutated)

\* The guard was consulted and answered false.
GuardRefused ==
  Occurs(call.log, "isAllowedToEditParticipants") /\ call.err = UnauthorizedModification

\* C19: whenever the guard is consulted, it answers false exactly when the
\* controller-mutation count is positive with a self-affected count of zero,
\* or the controller-mutation count exceeds one.
C19_GuardDecision ==
  (IsEditParticipants /\ Occurs(call.log, "isAllowedToEditParticipants")) =>
    (GuardRefused <=>
       \/ ControllerMutations > 0 /\ SelfAffected = 0
       \/ ControllerMutations > 1)

\* The acting user is a required approver and the list also drops another
\* one: two mutations, refused by the second rule.
C19_Witness ==
  /\ IsEditParticipants
  /\ GuardRefused
  /\ SelfAffected = 1
  /\ ControllerMutations = 2

(* ------------------------------------------------------------------ *)
(* C20: what an accepted list may change                                *)
(* ------------------------------------------------------------------ *)
\* The guard was consulted and let the list through.
GuardAccepted ==
  /\ Unprivileged
  /\ Occurs(call.log, "isAllowedToEditParticipants")
  /\ call.err # UnauthorizedModification

ControllerUsers(pairs) == {x[1] : x \in {y \in pairs : y[2]}}

\* C20 as stated: a list accepted from a caller without elevated permission
\* flags as required approvers the same users as before, the acting user
\* aside: no other user loses the flag, is removed while holding it, or
\* newly gains it.
C20_Original ==
  GuardAccepted =>
    ControllerUsers(ProposedPairs) \ {call.in.userId}
      = ControllerUsers(Pairs(ParticipantsOf(call.pre))) \ {call.in.userId}

\* C20 amended: in a list accepted from such a caller, every other user who
\* holds the flag keeps it: that user is in the proposed list, and nowhere in
\* it without the flag.  Users who did not hold the flag may gain it.
C20_OtherControllersKept ==
  GuardAccepted =>
    \A c \in OtherControllers :
      /\ <<c.userId, TRUE>> \in ProposedPairs
      /\ <<c.userId, FALSE>> \notin ProposedPairs

\* An accepted list that keeps the other required approver and flags a user
\* who did not hold the flag.
C20_Witness ==
  /\ GuardAccepted
  /\ call.err = NoError
  /\ OtherControllers # {}
  /\ \E u \in ControllerUsers(ProposedPairs) \ {call.in.userId} :
       u \notin ControllerUsers(Pairs(ParticipantsOf(call.pre)))
  /\ Pairs(ParticipantsOf(World)) = ProposedPairs

(* ------------------------------------------------------------------ *)
(* C21: one review row per required approver                            *)
(* ------------------------------------------------------------------ *)
\* Participant rows of the order flagged approvalIsRequired before the call.
RequiredApprovers == {p \in ParticipantsOf(call.pre) : p.approvalIsRequired}

\* The review rows of the change request the call created.
ReviewsOfCreated == {r \in changeReviews : r.orderChangeRequestId = Len(changeRequests)}

\* C21: the review rows inserted for a change request that a completed call
\* created correspond one to one to the participant rows of the order with
\* approvalIsRequired = true: each user has as many review rows as
\* required-approver rows, so a participant that is no required approver (or
\* belongs to another order) has none, and the call inserted no other review.
C21_OneReviewPerApprover ==
  (NonIntegrationEdit /\ Succeeded /\ CreatedChangeRequests = 1) =>
    /\ CreatedReviews = ReviewsOfCreated
    /\ Cardinality(ReviewsOfCreated) = Cardinality(RequiredApprovers)
    /\ \A u \in Users :
         Cardinality({r \in ReviewsOfCreated : r.entityId = u})
           = Cardinality({p \in RequiredApprovers : p.userId = u})

\* The order has a required approver, a participant that is none, and the
\* other order has an approver of its own: one review row was inserted.
C21_Witness ==
  /\ NonIntegrationEdit /\ Succeeded
  /\ CreatedChangeRequests = 1
  /\ Cardinality(RequiredApprovers) = 1
  /\ \E p \in ParticipantsOf(call.pre) : ~p.approvalIsRequired
  /\ \E p \in participants : p.orderId = OtherOrder /\ p.approvalIsRequired
  /\ Cardinality(ReviewsOfCreated) = 1

(* ------------------------------------------------------------------ *)
(* C22: the status change of a payload comes first                      *)
(* ------------------------------------------------------------------ *)
\* What a call does before it writes anything but the status change: reads,
\* checks, and the side effects of the status change itself.
BeforeStatusWrite ==
  {"load", "getPreferences", "clearLineItemCache", "canOrderBeCancelled", "resetOrder",
   "orderReadyForBookingErrors", "completeMilestone"}

\* The status change was refused: by the cancellation veto, or because the
\* order to accept is not ready for booking.
StatusChangeRefused == call.err \in {CannotCancel, "order is not ready for booking"}

\* The route the call has to take when the decision is made on status st.
ChangeControlOn(st) ==
  /\ prefs.enableChangeControl
  /\ ReceivedOrAccepted(st)
  /\ (PayloadControlledFields # {} \/ DOMAIN PayloadLineItems # {})

\* C22: in a non-integration call whose payload carries another status than
\* the order has, the first write of the order is the status change: before
\* it the call only reads, checks, resets (Canceled, Rejected) and completes
\* milestones (Accepted), and the written order is read back right after it.
\* The route is then chosen on the new status, on Paths A, B and C alike, and
\* the new status is stored when the call returns.  A refused status change
\* ends the call with no field applied and no change request created.
C22_StatusChangeFirst ==
  (NonIntegrationEdit /\ PayloadChangesStatus) =>
    /\ Succeeded =>
         LET i == FirstIndex(call.log, "updateOrder")
         IN /\ i > 0
            /\ \A j \in 1..(i - 1) : call.log[j] \in BeforeStatusWrite
            /\ call.log[i + 1] = "load"
            /\ PayloadStatus \in {"Canceled", "Rejected"} =>
                 \E j \in 1..(i - 1) : call.log[j] = "resetOrder"
            /\ PayloadStatus = "Accepted" =>
                 \E j \in 1..(i - 1) : call.log[j] = "completeMilestone"
            /\ order.orderStatusId = PayloadStatus
            /\ call.path \in {"A", "B", "C"}
            /\ call.path \in {"B", "C"} <=> ChangeControlOn(PayloadStatus)
            /\ call.path = "A" => \A k \in PayloadShippingFields : AppliedDirectly(k)
    /\ StatusChangeRefused =>
         /\ order = call.pre.order
         /\ lineItems = call.pre.lineItems
         /\ NoChangeControlRows

\* A Received order accepted by the payload that also edits a controlled and
\* an excluded field: the order is Accepted, a change request was created and
\* the excluded field written (Path C).
C22_Witness ==
  /\ NonIntegrationEdit /\ Succeeded
  /\ call.pre.order.orderStatusId = "Received"
  /\ PayloadStatus = "Accepted"
  /\ call.path = "C"
  /\ order.orderStatusId = "Accepted"
  /\ CreatedChangeRequests = 1
  /\ \A k \in PayloadExcludedFields : AppliedDirectly(k)

(* ------------------------------------------------------------------ *)
(* C23: two calls numbering their change requests side by side          *)
(* ------------------------------------------------------------------ *)
\* The call of process p has inserted its change request.
Inserted(p) == procs[p].pc \in {"finish", "done"}

InsertedRow(p) == changeRequests[procs[p].orderChangeRequestId]

\* C23: nothing guards the numbering against another call in between: the
\* row a call inserts carries the number it computed from the latest change
\* request it read, so two calls on the order that read the same latest
\* change request before either inserted both insert that number plus one.
C23_SameReadSameNumber ==
  \A p, q \in DOMAIN procs :
    (p # q /\ Inserted(p) /\ Inserted(q)
       /\ procs[p].lastChangeRequest = procs[q].lastChangeRequest) =>
      /\ InsertedRow(p).orderId = InsertedRow(q).orderId
      /\ InsertedRow(p).changeRequestNumber = InsertedRow(q).changeRequestNumber

\* Both calls have returned and the order has two change requests numbered 1.
C23_Witness ==
  /\ DOMAIN procs = Procs
  /\ \A p \in Procs : procs[p].pc = "done"
  /\ \E i, j \in 1..Len(changeRequests) :
       /\ i # j
       /\ changeRequests[i].orderId = ThisOrder
       /\ changeRequests[j].orderId = ThisOrder
       /\ changeRequests[i].changeRequestNumber = 1
       /\ changeRequests[j].changeRequestNumber = 1

(* ------------------------------------------------------------------ *)
(* C24: line items under change control                                 *)
(* ------------------------------------------------------------------ *)
\* What a query of updateLineItems leaves in the log, done or failed.
QueryEvents(k) == {k} \cup {Fault(k, kind) : kind \in FaultKinds}

\* The delta rows the instruction of the payload stands for.
PayloadDeltaRows ==
  UNION {{[orderChangeRequestId |-> Len(changeRequests), instruction |-> k, item |-> x] :
            x \in PayloadLineItems[k]} : k \in DOMAIN PayloadLineItems}

\* C24: a call that took the change-control path (B or C) left the line items
\* of the order as they were and ran no add, edit, remove or replace query;
\* the instruction of the payload is stored as the delta rows of the new
\* change request, and only there.
C24_LineItemsOnlyAsDeltas ==
  (NonIntegrationEdit /\ Occurs(call.log, "insertChangeRequest")) =>
    /\ lineItems = call.pre.lineItems
    /\ \A i \in 1..Len(call.log) : \A k \in LineItemKeys : call.log[i] \notin QueryEvents(k)
    /\ CreatedChangeRequestLineItems = PayloadDeltaRows
    /\ Succeeded /\ call.path \in {"B", "C"}

\* Path C with an add, an edit and a remove: three delta rows, line items as
\* before.
C24_Witness ==
  /\ NonIntegrationEdit /\ Succeeded
  /\ call.path = "C"
  /\ {"addLineItems", "editLineItems", "removeLineItems"} \subseteq DOMAIN PayloadLineItems
  /\ Cardinality(CreatedChangeRequestLineItems) = 3
  /\ lineItems = call.pre.lineItems

(* ------------------------------------------------------------------ *)
(* C25: failing line-item queries on the direct path                    *)
(* ------------------------------------------------------------------ *)
\* The queries the call ran.
QueriesRun ==
  {k \in LineItemKeys : \E i \in 1..Len(call.log) : call.log[i] \in QueryEvents(k)}

QueriesSupplied ==
  IF "replaceLineItems" \in DOMAIN PayloadLineItems THEN {"replaceLineItems"}
  ELSE DOMAIN PayloadLineItems

Threw(k) == Occurs(call.log, Fault(k, "throws"))
NoResultSet(k) == Occurs(call.log, Fault(k, "noRecordset"))

\* The query ran and its result set is empty: the database says so, or the
\* rows to edit or remove are not rows of the order.
ZeroRows(k) ==
  \/ Occurs(call.log, Fault(k, "lineItemNoRows"))
  \/ Occurs(call.log, Fault(k, "noteNoRows"))
  \/ /\ Occurs(call.log, k)
     /\ k \in {"editLineItems", "removeLineItems"}
     /\ LET known == (DOMAIN call.pre.lineItems)
                        \cup (IF Occurs(call.log, "addLineItems")
                              THEN PayloadLineItems.addLineItems ELSE {})
            asked == IF k = "editLineItems"
                     THEN {e.lineItemId : e \in PayloadLineItems.editLineItems}
                     ELSE PayloadLineItems.removeLineItems
        IN asked \cap known = {}

NamedErrors ==
  {FailedToCreate(e) : e \in {"line item", "note"}}
    \cup {FailedToUpdate(e) : e \in {"line item", "note"}}

EditedOrRemoved(p) ==
  LET li == procs[p].in.inputSubShip.lineItems
  IN (IF "editLineItems" \in DOMAIN li THEN {e.lineItemId : e \in li.editLineItems} ELSE {})
       \cup (IF "removeLineItems" \in DOMAIN li THEN li.removeLineItems ELSE {})

\* The loader holds for id something else than the stored row.
Stale(id) ==
  /\ id \in DOMAIN lineItemCache
  /\ id \notin DOMAIN lineItems \/ lineItemCache[id] # lineItems[id]

\* C26 as stated: once a direct-path call that edited or removed line items
\* has completed, the loader holds no entry with the content a line item had
\* before the call, for any line item the call edited or removed.
C26_Original ==
  \A p \in DOMAIN procs :
    (procs[p].pc = "done" /\ procs[p].err = NoError) =>
      \A id \in EditedOrRemoved(p) : ~Stale(id)

(* ------------------------------------------------------------------ *)
(* C27: the message thread after an edit of the associated companies    *)
(* ------------------------------------------------------------------ *)
\* The payload names one of the companies associated with the order.
PayloadNamesCompany ==
  \E k \in associatedCompanyIdKeys :
    k \in (DOMAIN call.in.inputSubShip) \cup (DOMAIN call.in.shippingInformation)

ThreadNotified == Occurs(call.log, "editPOMessageThread")

\* C27 as stated: every editOrder call that succeeds with a payload naming
\* an agent, broker, consignee, forwarder, supplier or trucker has notified
\* the order's message thread when it returns, on Paths A, B and C and on
\* the integration path.
C27_Original ==
  (IsEditOrder /\ Succeeded /\ PayloadNamesCompany) => ThreadNotified

\* The part of C27 about Paths A, B and C: the thread is notified, and after
\* the order was read back.
ThreadNotifiedWhenRouted ==
  (NonIntegrationEdit /\ Succeeded /\ PayloadNamesCompany) =>
    /\ call.path \in {"A", "B", "C"}
    /\ ThreadNotified
    /\ messages[Len(messages)].kind = "thread"

(* ------------------------------------------------------------------ *)
(* C28: messages and the relational writes they are about               *)
(* ------------------------------------------------------------------ *)
\* Event a of the last call happened, and before the first event b.
Precedes(a, b) ==
  /\ Occurs(call.log, a)
  /\ FirstIndex(call.log, a) < FirstIndex(call.log, b)

\* The part of C28 about createOrder: the order-created message and the
\* message thread are created after the transaction of the order committed.
MessagesAfterCommit ==
  call.op = "createOrder" =>
    \A e \in {"createMongoMessagesCreateOrder", "createPOMessageThread"} :
      Occurs(call.log, e) =>
        /\ Precedes("commitTransaction", e)
        /\ created.order # {} /\ created.participants # {} /\ created.milestones # {}

\* The part of C28 about a change request: the participants are notified
\* after the change request, its review rows and its line-item rows are
\* inserted.
NotifiedAfterInserts ==
  (IsEditOrder /\ Occurs(call.log, "createMongoMessagesEditOrder")) =>
    \A e \in {"insertChangeRequest", "insertChangeReviews", "insertChangeRequestLineItems"} :
      Precedes(e, "createMongoMessagesEditOrder")

\* C28 as stated: messages are issued only after the relational writes of
\* the same operation, in createOrder and in the creation of a change
\* request.
C28_Original == MessagesAfterCommit /\ NotifiedAfterInserts

\* What the code does keep in the creation of a change request: the
\* participants are notified after the change request row is inserted.
NotifiedAfterChangeRequestRow ==
  (IsEditOrder /\ Occurs(call.log, "createMongoMessagesEditOrder")) =>
    Precedes("insertChangeRequest", "createMongoMessagesEditOrder")

\* Every change request the message store announces has its review rows.
AnnouncedChangeRequestsHaveReviews ==
  \A i \in 1..Len(messages) :
    messages[i].kind = "changeRequest" =>
      \E r \in changeReviews : r.orderChangeRequestId = messages[i].changeRequest

(* ------------------------------------------------------------------ *)
(* C29: the participants after an edit                                  *)
(* ------------------------------------------------------------------ *)
\* Row r holds entry i of the proposed list.
HoldsEntry(r, i) ==
  /\ r.id = i
  /\ r.orderId = ThisOrder
  /\ r.userId = call.in.participants[i].userId
  /\ r.approvalIsRequired = call.in.participants[i].approvalIsRequired

\* C29: after a successful editOrderParticipants call the participant rows
\* of the order are the proposed list, one row per entry with the entry's
\* userId and approvalIsRequired, and nothing else: the previous rows were
\* deleted before the insert.  The rows of other orders are as they were.
\* An empty list leaves the order without participants and the call returns
\* an empty result.
C29_ParticipantsReplaced ==
  (IsEditParticipants /\ Succeeded) =>
    /\ Cardinality(ParticipantsOf(World)) = Len(call.in.participants)
    /\ \A i \in 1..Len(call.in.participants) : \E r \in ParticipantsOf(World) : HoldsEntry(r, i)
    /\ Occurs(call.log, "OrderParticipant.delete")
    /\ Occurs(call.log, "insert") =>
         FirstIndex(call.log, "OrderParticipant.delete") < FirstIndex(call.log, "insert")
    /\ participants \ ParticipantsOf(World) = call.pre.participants \ ParticipantsOf(call.pre)
    /\ Len(call.in.participants) = 0 =>
         /\ ParticipantsOf(World) = {}
         /\ call.ret = {}
         /\ ~Occurs(call.log, "insert")

\* Three participants, two of them required approvers, are replaced by a
\* list of one plain participant who was an approver before.
C29_Witness ==
  /\ IsEditParticipants
  /\ Succeeded
  /\ Cardinality(ParticipantsOf(call.pre)) = 3
  /\ Cardinality({p \in ParticipantsOf(call.pre) : p.approvalIsRequired}) = 2
  /\ Len(call.in.participants) = 1
  /\ ~call.in.participants[1].approvalIsRequired
  /\ <<call.in.participants[1].userId, TRUE>> \in Pairs(ParticipantsOf(call.pre))
  /\ Pairs(ParticipantsOf(World)) = {<<call.in.participants[1].userId, FALSE>>}

\* Participants are replaced by the empty list.
NoParticipantsLeft ==
  /\ IsEditParticipants
  /\ Succeeded
  /\ ParticipantsOf(call.pre) # {}
  /\ call.in.participants = <<>>
  /\ ParticipantsOf(World) = {}

(* ------------------------------------------------------------------ *)
(* C30: the checks before the participants are deleted                  *)
(* ------------------------------------------------------------------ *)
NonIntegrationCaller == IsEditParticipants /\ "INTEGRATION" \notin call.in.permissions

AdminOrStaff == call.in.permissions \cap {"ADMIN", "STAFF"} # {}

\* The rule of the participants guard on the rows before the call.
GuardAllows ==
  /\ ~(ControllerMutations > 0 /\ SelfAffected = 0)
  /\ ~(ControllerMutations > 1)

CheckErrors ==
  {"Unauthorized participant user", "Unauthorized participant", UnauthorizedModification}

DeletedParticipants == Occurs(call.log, "OrderParticipant.delete")

\* C30: for a caller without integration permission, editOrderParticipants
\* deletes or changes participant rows only when the acting user and every
\* proposed user belong to a company associated with the order and the
\* caller is admin or staff or the participants guard allows the list.  When
\* one of these fails the call throws before the delete: no row is deleted
\* or changed and the message thread is not touched.
C30_ChecksBeforeDelete ==
  NonIntegrationCaller =>
    /\ (DeletedParticipants \/ participants # call.pre.participants) =>
         /\ AssociationPassed
         /\ AdminOrStaff \/ GuardAllows
    /\ (~AssociationPassed \/ ~(AdminOrStaff \/ GuardAllows)) =>
         /\ call.err \in CheckErrors
         /\ ~DeletedParticipants
         /\ participants = call.pre.participants
         /\ messages = call.pre.messages
    /\ call.err \in CheckErrors => ~DeletedParticipants

\* An associated caller without privileges proposes a list, allowed by the
\* guard, that holds a user of no associated company: the call is refused
\* and the participants stay.
C30_Witness ==
  /\ NonIntegrationCaller
  /\ ~AdminOrStaff
  /\ call.in.userId \in call.in.associated
  /\ GuardAllows
  /\ ~AssociationPassed
  /\ call.err = "Unauthorized participant"
  /\ Pairs(ParticipantsOf(call.pre)) # ProposedPairs
  /\ participants = call.pre.participants

\* All checks pass for a caller without privileges and the rows change.
ChecksPassedAndStored ==
  /\ NonIntegrationCaller
  /\ ~AdminOrStaff
  /\ AssociationPassed
  /\ GuardAllows
  /\ Succeeded
  /\ participants # call.pre.participants

(* ------------------------------------------------------------------ *)
(* C31: when the order is reset                                         *)
(* ------------------------------------------------------------------ *)
IsEditOrderStatus == call.op = "editOrderStatus"

WasReset == Occurs(call.log, "resetOrder")

CanceledOrRejected(st) == st \in {canceledStatusId, rejectedStatusId}

\* C31 as stated: no editOrder or editOrderStatus call that leaves the
\* order's orderStatusId as it was resets the order.
C31_Original ==
  ((IsEditOrder \/ IsEditOrderStatus) /\ order.orderStatusId = call.pre.order.orderStatusId) =>
    ~WasReset

\* C31 amended: the order is reset by an editOrderStatus call that asks for
\* Canceled or Rejected, whatever status the order has, by a non-integration
\* editOrder call whose payload changes the status to Canceled or Rejected,
\* and by every integration editOrder call that reaches the reset; by no
\* other call.  A non-integration editOrder call that leaves orderStatusId
\* as it was never resets the order.
C31_ResetOnlyOnCancelRejectOrIntegration ==
  /\ (IsEditOrderStatus /\ WasReset) => CanceledOrRejected(call.in.orderStatusId)
  /\ (NonIntegrationEdit /\ WasReset) =>
       /\ PayloadChangesStatus
       /\ CanceledOrRejected(PayloadStatus)
       /\ order.orderStatusId = PayloadStatus
  /\ (NonIntegrationEdit /\ order.orderStatusId = call.pre.order.orderStatusId) =>
       /\ ~WasReset
       /\ dependent = call.pre.dependent
  /\ (IntegrationEdit /\ Succeeded) => WasReset
  /\ (IsEditOrder \/ IsEditOrderStatus) => (WasReset <=> dependent = "none")

\* A non-integration edit moves a Received order to Rejected and resets it.
C31_Witness ==
  /\ NonIntegrationEdit
  /\ Succeeded
  /\ call.pre.order.orderStatusId = receivedStatusId
  /\ PayloadStatus = rejectedStatusId
  /\ order.orderStatusId = rejectedStatusId
  /\ WasReset
  /\ dependent = "none"

\* An editOrderStatus call asks for the status the order has, and resets it.
ResetWithoutTransition ==
  /\ IsEditOrderStatus
  /\ call.in.orderStatusId = call.pre.order.orderStatusId
  /\ WasReset

(* ------------------------------------------------------------------ *)
(* C32: the transaction of createOrder                                  *)
(* ------------------------------------------------------------------ *)
IsCreateOrder == call.op = "createOrder"

\* The statements of the transaction and the event each leaves in the log.
TransactionSteps ==
  {<<"insertOrder", "insertOrder">>, <<"createOrderParticipants", "insertParticipants">>,
   <<"createExtraData", "createExtraData">>, <<"createOrderMilestones", "createOrderMilestones">>,
   <<"commitTransaction", "commitTransaction">>}

\* A statement of the transaction was executed and the database failed it,
\* or the participants to insert were none.
TransactionStepFailed ==
  \/ \E x \in TransactionSteps : x[1] \in faults /\ Occurs(call.log, x[2])
  \/ /\ Occurs(call.log, "insertParticipants")
     /\ \A i \in 1..Len(call.in.rights) :
          call.in.rights[i].orgId \notin {BuyerOrg, call.in.supplierId, call.in.consigneeId}

PostCommitSteps ==
  {"genAndUpdatePONumber", "addLineItemsToOrder", "createMongoMessagesCreateOrder",
   "createPOMessageThread"}

PostCommitErrors == {f \o " failed" : f \in PostCommitSteps}

RolledBack == Occurs(call.log, "rollbackTransaction")

NothingCreated ==
  /\ created.order = {}
  /\ created.participants = {}
  /\ created.extraData = {}
  /\ created.milestones = {}

\* C32: createOrder writes the order row, its participants, its extra data
\* and its milestones in one transaction.  When one of these statements or
\* the commit fails, the transaction is rolled back, the connection is
\* released, the call fails and none of these rows remains.  When the
\* transaction commits, the rows are all there, and a failure of a later
\* step (PO number, line items, messages) leaves them in place.
C32_CreateOrderTransaction ==
  IsCreateOrder =>
    /\ TransactionStepFailed <=> RolledBack
    /\ RolledBack => (~Succeeded /\ NothingCreated /\ created.lineItems = EmptyObject)
    /\ Occurs(call.log, "startTransaction") => Occurs(call.log, "release")
    /\ (Occurs(call.log, "startTransaction") /\ ~RolledBack) =>
         /\ Cardinality(created.order) = 1
         /\ created.participants # {}
         /\ created.milestones # {}
         /\ (created.extraData # {}) <=> (call.in.extraData # <<>>)
    /\ call.err \in PostCommitErrors =>
         /\ ~RolledBack
         /\ Cardinality(created.order) = 1
    /\ \A e \in PostCommitSteps :
         Occurs(call.log, e) => Precedes("commitTransaction", e) /\ ~RolledBack

\* The milestones fail after the order, its participants and its extra data
\* were inserted: all is rolled back.
C32_Witness ==
  /\ IsCreateOrder
  /\ faults = {"createOrderMilestones"}
  /\ Occurs(call.log, "insertOrder")
  /\ Occurs(call.log, "insertParticipants")
  /\ Occurs(call.log, "createExtraData")
  /\ Occurs(call.log, "createOrderMilestones")
  /\ RolledBack
  /\ NothingCreated
  /\ ~Succeeded

\* The message of the created order fails after the commit: the order stays.
FailedAfterCommit ==
  /\ IsCreateOrder
  /\ call.err = "createMongoMessagesCreateOrder failed"
  /\ created.order # {}
  /\ created.lineItems # EmptyObject

(* ------------------------------------------------------------------ *)
(* C33: an order without default approver                               *)
(* ------------------------------------------------------------------ *)
\* createOrderParticipants was called: the order row was inserted.
ReachedParticipants ==
  IsCreateOrder /\ Occurs(call.log, "insertOrder") /\ "insertOrder" \notin faults

\* Neither the buyer organisation nor the supplier organisation has a row in
\* the view of participant rights.
NoApproverCandidate ==
  \A i \in 1..Len(call.in.rights) :
    call.in.rights[i].orgId \notin {BuyerOrg, call.in.supplierId}

\* C33 as stated: when neither the buyer nor the supplier organisation
\* yields a default approver, createOrderParticipants fails with 'No default
\* participants for order' and inserts no participant row; no order is
\* created without a required approver.
C33_Original ==
  /\ (ReachedParticipants /\ NoApproverCandidate) =>
       /\ call.err = "createOrder No default participants for order."
       /\ created.participants = {}
  /\ (IsCreateOrder /\ created.order # {}) =>
       \E p \in created.participants : p.approvalIsRequired

\* What the call does instead: with participants of other companies only it
\* stores them, none a required approver, and with no participant at all it
\* fails at the insert; the error of line 68 is never raised.
NoDefaultParticipantsNeverRaised ==
  IsCreateOrder =>
    /\ call.err # "createOrder No default participants for order."
    /\ (ReachedParticipants /\ NoApproverCandidate /\ Succeeded) =>
         /\ created.participants # {}
         /\ \A p \in created.participants : ~p.approvalIsRequired

\* An order is created whose participants are users of the consignee only,
\* none of them a required approver.
CreatedWithoutApprover ==
  /\ IsCreateOrder
  /\ Succeeded
  /\ NoApproverCandidate
  /\ created.order # {}
  /\ created.participants # {}
  /\ \A p \in created.participants : ~p.approvalIsRequired

(* ------------------------------------------------------------------ *)
(* C34: accepting an order                                              *)
(* ------------------------------------------------------------------ *)
\* The readiness errors of the order were asked for: an accept of an order
\* that is not Accepted was requested and reached.
AcceptReached == Occurs(call.log, "orderReadyForBookingErrors")

UpdatesOfOrder == {i \in 1..Len(call.log) : call.log[i] = "updateOrder"}

\* C34: an editOrder or editOrderStatus call moves the order to Accepted
\* from another status only when orderReadyForBookingErrors reports no
\* error.  When it reports errors the accept throws and orderStatusId and
\* isReadyForBooking are as before the call.  A successful editOrderStatus
\* accept writes orderStatusId = Accepted and isReadyForBooking = TRUE in
\* one update and returns the order so written.
C34_AcceptOnlyWhenReady ==
  (IsEditOrder \/ IsEditOrderStatus) =>
    /\ (order.orderStatusId = acceptedStatusId
          /\ call.pre.order.orderStatusId # acceptedStatusId) =>
         (bookingReady /\ AcceptReached)
    /\ (AcceptReached /\ ~bookingReady) =>
         /\ call.err = "order is not ready for booking"
         /\ order.orderStatusId = call.pre.order.orderStatusId
         /\ order.isReadyForBooking = call.pre.order.isReadyForBooking
         /\ UpdatesOfOrder = {}
    /\ (IsEditOrderStatus /\ call.in.orderStatusId = acceptedStatusId
          /\ call.pre.order.orderStatusId # acceptedStatusId) => AcceptReached
    /\ (IsEditOrderStatus /\ AcceptReached /\ bookingReady) =>
         /\ Succeeded
         /\ order.orderStatusId = acceptedStatusId
         /\ order.isReadyForBooking = TRUE
         /\ Cardinality(UpdatesOfOrder) = 1
         /\ call.ret = order

\* A Received order that is complete is accepted by editOrderStatus: status
\* and readiness flag are written together.
C34_Witness ==
  /\ IsEditOrderStatus
  /\ call.pre.order.orderStatusId = receivedStatusId
  /\ ~call.pre.order.isReadyForBooking
  /\ bookingReady
  /\ Succeeded
  /\ order.orderStatusId = acceptedStatusId
  /\ order.isReadyForBooking

\* An accept carried by an edit is refused: the order is not complete.
AcceptRefusedInEdit ==
  /\ NonIntegrationEdit
  /\ PayloadStatus = acceptedStatusId
  /\ ~bookingReady
  /\ call.err = "order is not ready for booking"
  /\ order = call.pre.order

(* ------------------------------------------------------------------ *)
(* C35: what becomes of the fields of the payload                       *)
(* ------------------------------------------------------------------ *)
\* The change request the last call created, as a sequence of length 0 or 1.
NewChangeRequest ==
  IF CreatedChangeRequests = 1 THEN <<changeRequests[Len(changeRequests)]>> ELSE <<>>

\* Shipping field k of the payload is in the description of the change
\* request the call created.
RecordedShipping(k) ==
  /\ NewChangeRequest # <<>>
  /\ k \in DOMAIN NewChangeRequest[1].description.shippingInformation
  /\ NewChangeRequest[1].description.shippingInformation[k] = call.in.shippingInformation[k]

RecordedLineItems ==
  /\ NewChangeRequest # <<>>
  /\ NewChangeRequest[1].description.lineItems = PayloadLineItems
  /\ PayloadDeltaRows \subseteq crLineItems

TopLevelApplied(k) == order[k] = call.in.inputSubShip[k]

\* C35 as stated: after a successful non-integration editOrder call every
\* field of the payload was written to the order or is recorded in the
\* change request the call created: shipping fields, top-level fields,
\* extra data and line-item instructions.
C35_Original ==
  (NonIntegrationEdit /\ Succeeded) =>
    /\ \A k \in PayloadShippingFields : AppliedDirectly(k) \/ RecordedShipping(k)
    /\ \A k \in PayloadTopLevelFields : TopLevelApplied(k)
    /\ PayloadHasExtraData => order.extraData = call.in.shippingInformation.extraData
    /\ ~isEmpty(PayloadLineItems) =>
         LineItemsApplied(call.pre.lineItems, PayloadLineItems) \/ RecordedLineItems

\* What does hold: the shipping fields, the extra data and the line-item
\* instructions are applied or recorded on every path, and the top-level
\* fields are applied on Paths A and C.
FieldsKeptExceptTopLevelOnPathB ==
  (NonIntegrationEdit /\ Succeeded) =>
    /\ \A k \in PayloadShippingFields : AppliedDirectly(k) \/ RecordedShipping(k)
    /\ PayloadHasExtraData => order.extraData = call.in.shippingInformation.extraData
    /\ ~isEmpty(PayloadLineItems) =>
         LineItemsApplied(call.pre.lineItems, PayloadLineItems) \/ RecordedLineItems
    /\ call.path \in {"A", "C"} => \A k \in PayloadTopLevelFields : TopLevelApplied(k)
    /\ call.path = "B" =>
         \A k \in PayloadTopLevelFields : order[k] = call.pre.order[k] /\ ThreadNotified

(* ------------------------------------------------------------------ *)
(* C36: the status of the order when a change request is inserted      *)
(* ------------------------------------------------------------------ *)
\* C36 as stated: under any interleaving of an editOrder call on the
\* change-control path with an editOrderStatus call on the same order, a
\* change request is inserted only while the stored status of the order is
\* Received or Accepted.
C36_Original ==
  [][Len(changeRequests') > Len(changeRequests) =>
       order.orderStatusId \in {receivedStatusId, acceptedStatusId}]_vars

\* Both calls are over: the order is Canceled and reset, and carries a
\* change request that is Proposed.
ChangeRequestOnCanceledOrder ==
  /\ \A p \in DOMAIN procs : procs[p].pc = "done"
  /\ order.orderStatusId = canceledStatusId
  /\ dependent = "none"
  /\ \E i \in 1..Len(changeRequests) :
       /\ changeRequests[i].orderId = ThisOrder
       /\ changeRequests[i].changeStatusId = proposedChangeStatusId

(* ------------------------------------------------------------------ *)
(* C37: the participants after a failed edit                            *)
(* ------------------------------------------------------------------ *)
\* C37 as stated: editOrderParticipants is all-or-nothing: when the call
\* throws at any step, the participant rows of the order are the same as
\* before the call.
C37_Original ==
  (IsEditParticipants /\ ~Succeeded) => ParticipantsOf(World) = ParticipantsOf(call.pre)

\* A call that throws in one of its checks leaves the rows as they were.
RefusedCallsKeepRows ==
  (IsEditParticipants /\ call.err \in CheckErrors) => participants = call.pre.participants

\* The insert failed after the delete: the order had participants and has
\* none now.
ParticipantsLostOnFailedInsert ==
  /\ IsEditParticipants
  /\ call.err = "Failed to create participants"
  /\ DeletedParticipants
  /\ ParticipantsOf(call.pre) # {}
  /\ ParticipantsOf(World) = {}

(* ------------------------------------------------------------------ *)
(* C38: the participants after two concurrent edits                     *)
(* ------------------------------------------------------------------ *)
BothSucceeded == \A p \in Procs : procs[p].pc = "done" /\ procs[p].err = NoError

ListPairs(l) == {<<l[i].userId, l[i].approvalIsRequired>> : i \in 1..Len(l)}

\* The rows of the order are the entries of list l, one row per entry.
RowsAre(l) ==
  /\ Cardinality(ParticipantsOf(World)) = Len(l)
  /\ Pairs(ParticipantsOf(World)) = ListPairs(l)

OneRowPerUser ==
  \A r1, r2 \in ParticipantsOf(World) : r1.userId = r2.userId => r1 = r2

\* C38 as stated: after any interleaving of two concurrent
\* editOrderParticipants calls on the same order that both succeed, the
\* participant rows of the order are exactly one of the two proposed lists,
\* never the union of both, and no two rows have the same user.
C38_Original ==
  BothSucceeded =>
    /\ \E p \in Procs : RowsAre(procs[p].in.participants)
    /\ OneRowPerUser

\* Both calls succeeded with lists of different users and the order has the
\* rows of both.
UnionOfBothLists ==
  /\ BothSucceeded
  /\ \A p \in Procs : procs[p].in.participants # <<>>
  /\ ListPairs(procs["p1"].in.participants) \cap ListPairs(procs["p2"].in.participants) = {}
  /\ Pairs(ParticipantsOf(World)) =
       ListPairs(procs["p1"].in.participants) \cup ListPairs(procs["p2"].in.participants)

\* Both calls succeeded and the order has two rows for one user.
TwoRowsForOneUser == BothSucceeded /\ ~OneRowPerUser

====
